---- MODULE Spec2Model ----
(***************************************************************************)
(* Verification model of the generator's two micro-languages:              *)
(*   - the MML parser (src/generator/src/parse.cpp) together with the      *)
(*     scanning primitives of src/generator/src/str_utils.cpp;             *)
(*   - the Sexpr reader and evaluator (src/generator/src/eval_engine.cpp). *)
(*                                                                         *)
(* A source text is a sequence of one-character strings.  An iterator      *)
(* into the text is a 1-based index; the end iterator of a text of length  *)
(* n is n + 1.  A std::string_view is a record [ptr, len].                 *)
(***************************************************************************)
EXTENDS Integers, Sequences, FiniteSets, TLC

VARIABLES
  text,       \* the MML source handed to generator::parse::mml::parse
  doc,        \* what parse returned for `text` (NoResult before the call)
  pairs,      \* the (key, value) list a props section was written from
  tokens,     \* the token strings of the text handed to Context::parse
  parseRes,   \* what Context::parse returned for `tokens`
  symbols,    \* Context::symbols: namespace -> token -> Value
  buf,        \* Context::buf, the output buffer
  lastRes,    \* the outcome of the last call made on the Context
  evals       \* the number of calls made on the Context so far

mmlVars   == <<text, doc, pairs>>
sexprVars == <<tokens, parseRes>>
ctxVars   == <<symbols, buf, lastRes, evals>>
vars      == <<text, doc, pairs, tokens, parseRes, symbols, buf, lastRes, evals>>

NoResult == [kind |-> "NoResult"]

\* no text has been handed to the MML parser
MmlIdle == text = [null |-> TRUE, str |-> <<>>] /\ doc = NoResult /\ pairs = <<>>

\* no token stream has been handed to the Sexpr reader
SexprIdle == tokens = <<>> /\ parseRes = NoResult

\* no Context has been constructed
NoContext == [kind |-> "NoContext"]
CtxIdle ==
  symbols = NoContext /\ buf = <<>> /\ lastRes = NoResult /\ evals = 0

\* ---------------------------------------------------------------------
\* Characters
\* ---------------------------------------------------------------------
TILDE     == "~"
NL        == "\n"
SPACE     == " "
TAB       == "\t"
CR        == "\r"
BACKSLASH == "\\"
DQUOTE    == "\""
NUL       == "NUL"

\* *iter.  Reading the end iterator of the whole std::string yields the
\* terminating '\0' of the buffer; reading the end iterator of a sub-range
\* yields the character that follows the range in the text.
CharAt(t, p) == IF p \in 1..Len(t) THEN t[p] ELSE NUL

is_whitespace(ch) == ch = CR \/ ch = NL \/ ch = TAB \/ ch = SPACE

LowerCase == {"a", "b", "c", "d", "e", "i", "k", "l", "m", "v", "w", "x"}
UpperCase == {"A", "B"}
Digits    == {"0", "1", "2"}

is_tag_name_char(c) == c \in LowerCase \/ c \in UpperCase \/ c = "_"

is_prop_name_char(c) ==
  c \in LowerCase \/ c \in UpperCase \/ c \in Digits \/ c = "_"

\* ---------------------------------------------------------------------
\* str_utils
\* ---------------------------------------------------------------------
\* std::find(start, end, look)
RECURSIVE Find(_, _, _, _)
Find(t, start, end, look) ==
  IF start >= end THEN end
  ELSE IF t[start] = look THEN start
  ELSE Find(t, start + 1, end, look)

\* std::find_if_not(start, end, is_tag_name_char)
RECURSIVE FindIfNotTagName(_, _, _)
FindIfNotTagName(t, start, end) ==
  IF start >= end THEN end
  ELSE IF ~is_tag_name_char(t[start]) THEN start
  ELSE FindIfNotTagName(t, start + 1, end)

\* std::find_if_not(start, end, is_prop_name_char)
RECURSIVE FindIfNotPropName(_, _, _)
FindIfNotPropName(t, start, end) ==
  IF start >= end THEN end
  ELSE IF ~is_prop_name_char(t[start]) THEN start
  ELSE FindIfNotPropName(t, start + 1, end)

RECURSIVE find_not_escaped(_, _, _, _, _)
find_not_escaped(t, start, end, look, escape) ==
  LET possibleEnd == Find(t, start, end, look)
  IN  IF possibleEnd = end THEN end
      ELSE IF possibleEnd = start THEN start
      ELSE IF t[possibleEnd - 1] # escape THEN possibleEnd
      ELSE find_not_escaped(t, possibleEnd + 1, end, look, BACKSLASH)

RECURSIVE find_not_quoted_loop(_, _, _, _, _, _)
find_not_quoted_loop(t, cur, end, look, quoteCount, prevCharIsBackslash) ==
  IF cur # end /\ ((quoteCount % 2) # 0 \/ t[cur] # look)
  THEN find_not_quoted_loop(t, cur + 1, end, look,
         quoteCount + (IF t[cur] = DQUOTE THEN 1 ELSE 0)
                        * (1 - prevCharIsBackslash),
         IF t[cur] = BACKSLASH THEN 1 ELSE 0)
  ELSE cur

find_not_quoted(t, start, end, look) ==
  find_not_quoted_loop(t, start, end, look, 0, 0)

range_to_view(first, last) ==
  IF first # last THEN [ptr |-> first, len |-> last - first]
                  ELSE [ptr |-> 0, len |-> 0]

\* the characters a view denotes
ViewText(t, v) == SubSeq(t, v.ptr, v.ptr + v.len - 1)

\* the for loop of find_not_escaped_stack: one ++count per unescaped `pair`
RECURSIVE count_pairs(_, _, _, _, _)
count_pairs(t, nextStart, nextEnd, pair, count) ==
  IF nextStart = nextEnd THEN count
  ELSE count_pairs(t, find_not_escaped(t, nextStart + 1, nextEnd, pair, BACKSLASH),
                   nextEnd, pair, count + 1)

RECURSIVE find_not_escaped_stack_loop(_, _, _, _, _, _)
find_not_escaped_stack_loop(t, curPos, end, look, pair, count) ==
  IF curPos = end THEN end
  ELSE LET nextEnd == find_not_escaped(t, curPos, end, look, BACKSLASH)
       IN  IF nextEnd = end THEN end
           ELSE LET c == count_pairs(t,
                           find_not_escaped(t, curPos, nextEnd, pair, BACKSLASH),
                           nextEnd, pair, count)
                IN  IF c <= 1 THEN nextEnd
                    ELSE find_not_escaped_stack_loop(t, nextEnd + 1, end,
                                                     look, pair, c - 1)

find_not_escaped_stack_inside(t, start, end, look, pair, escape) ==
  find_not_escaped_stack_loop(t, start, end, look, pair, 1)

find_not_escaped_stack(t, start, end, look, pair, escape) ==
  find_not_escaped_stack_loop(t, start, end, look, pair, 0)

RECURSIVE find_after_newline_ws(_, _, _, _)
find_after_newline_ws(t, start, end, look) ==
  IF start = end THEN end
  ELSE LET newlineItr == Find(t, start, end, NL)
       IN  IF newlineItr = end THEN end
           ELSE LET lookIter == Find(t, newlineItr, end, look)
                    ws == \A p \in newlineItr..(lookIter - 1) : is_whitespace(t[p])
                IN  IF lookIter # end /\ ws THEN lookIter
                    ELSE find_after_newline_ws(t, newlineItr + 1, end, look)

starts_with_trails_newline_ws(t, start, end, look) ==
  IF end - start < Len(look) THEN FALSE
  ELSE /\ \A i \in 1..Len(look) : t[start + i - 1] = look[i]
       /\ LET l0 == start + Len(look)
              stop == Find(t, l0, end, NL)
          IN  \A p \in l0..(stop - 1) : is_whitespace(t[p])

RECURSIVE ends_with_newline_ws_loop(_, _)
ends_with_newline_ws_loop(sv, iter) ==
  IF iter # 1 /\ is_whitespace(sv[iter])
  THEN IF sv[iter] = NL THEN TRUE ELSE ends_with_newline_ws_loop(sv, iter - 1)
  ELSE sv[iter] = NL

ends_with_newline_ws(sv) ==
  IF Len(sv) = 0 THEN FALSE ELSE ends_with_newline_ws_loop(sv, Len(sv))

\* ---------------------------------------------------------------------
\* MML parser (parse.cpp)
\* ---------------------------------------------------------------------
nullopt == [has_value |-> FALSE]
Some(v) == [has_value |-> TRUE, value |-> v]

\* std::map<std::string, std::vector<std::string_view>>: a function whose
\* domain is the set of keys present
EmptyProps == [k \in {} |-> <<>>]

DelimKey == <<"d", "e", "l", "i", "m">>

Content(view) == [kind |-> "Content", content |-> view]

\* a failed std::optional<Element>: the caller's iterator is left alone
NoElement(iter) == [ok |-> FALSE, iter |-> iter]
AnElement(iter, elem) == [ok |-> TRUE, iter |-> iter, elem |-> elem]

grab_tag_name(t, iter, end) ==
  LET nameEnd == FindIfNotTagName(t, iter, end)
  IN  IF nameEnd = end THEN nullopt ELSE Some(nameEnd)

\* res[name] = {value}: the last occurrence of a key replaces the earlier ones
PropsAssign(res, name, value) ==
  [k \in (DOMAIN res) \cup {name} |-> IF k = name THEN <<value>> ELSE res[k]]

\* res[name].emplace_back(value)
PropsEmplaceBack(res, name, value) ==
  IF name \in DOMAIN res
  THEN [res EXCEPT ![name] = Append(@, value)]
  ELSE [k \in (DOMAIN res) \cup {name} |->
          IF k = name THEN <<value>> ELSE res[k]]

RECURSIVE parse_props_loop(_, _, _, _)
parse_props_loop(t, iter, end, res) ==
  IF iter = end THEN Some(res)
  ELSE
    LET nameEnd == FindIfNotPropName(t, iter, end)
    IN  IF nameEnd = iter \/ nameEnd = end \/ t[nameEnd] # "=" THEN nullopt
        ELSE
          LET name       == SubSeq(t, iter, nameEnd - 1)
              valueStart == nameEnd + 1
          IN  IF CharAt(t, valueStart) = DQUOTE
              THEN
                LET quoteEnd == find_not_escaped(t, valueStart + 1, end,
                                                 DQUOTE, BACKSLASH)
                    value    == range_to_view(valueStart + 1, quoteEnd)
                IN  IF quoteEnd = end THEN nullopt
                    ELSE IF quoteEnd + 1 # end /\ t[quoteEnd + 1] # ";"
                    THEN nullopt
                    ELSE
                      LET valueEnd == IF quoteEnd + 1 # end THEN quoteEnd + 1
                                                             ELSE quoteEnd
                      IN  parse_props_loop(t,
                            IF valueEnd = end THEN valueEnd ELSE valueEnd + 1,
                            end, PropsEmplaceBack(res, name, value))
              ELSE
                LET valueEnd == find_not_escaped(t, valueStart, end, ";",
                                                 BACKSLASH)
                    value    == range_to_view(valueStart, valueEnd)
                IN  IF valueEnd = valueStart THEN nullopt
                    ELSE parse_props_loop(t,
                           IF valueEnd = end THEN valueEnd ELSE valueEnd + 1,
                           end, PropsEmplaceBack(res, name, value))

parse_props(t, start, end) == parse_props_loop(t, start, end, EmptyProps)

\* a Content that stops one character short of the next tag
parse_content_short(t, iter, end) ==
  IF iter = end THEN NoElement(iter)
  ELSE LET contentEnd == find_not_escaped(t, iter, end, TILDE, BACKSLASH)
       IN  IF iter = contentEnd THEN NoElement(iter)
           ELSE AnElement(contentEnd,
                          Content(range_to_view(iter, contentEnd - 1)))

parse_content(t, iter, end) ==
  IF iter = end THEN NoElement(iter)
  ELSE LET contentEnd == find_not_escaped(t, iter, end, TILDE, BACKSLASH)
       IN  IF iter = contentEnd THEN NoElement(iter)
           ELSE AnElement(contentEnd, Content(range_to_view(iter, contentEnd)))

\* a closing name that ignores the `delim` prop
EndDelimName(t, res) == ViewText(t, res.tagName)

\* lines 194-200: the name that closes a BLOCK tag
EndDelim(t, res) ==
  IF DelimKey \in DOMAIN res.props /\ res.props[DelimKey] # <<>>
  THEN ViewText(t, res.props[DelimKey][1])
  ELSE ViewText(t, res.tagName)

\* a body that stops one character before the terminator
BlockRawContentTrimmed(contentStart, nextTagSpot) ==
  range_to_view(contentStart, nextTagSpot - 1)

\* line 217: the body of a BLOCK tag runs up to its terminator
BlockRawContent(contentStart, nextTagSpot) ==
  range_to_view(contentStart, nextTagSpot)

RECURSIVE parse_tag(_, _, _, _)
RECURSIVE parse_element(_, _, _, _)
RECURSIVE parse_elements_loop(_, _, _, _, _)
RECURSIVE parse_block_loop(_, _, _, _, _, _, _, _)

\* lines 23-36; start is an in/out parameter, returned as `iter`
parse_elements(t, start, end, allowedTags) ==
  parse_elements_loop(t, start, end, allowedTags, <<>>)

parse_elements_loop(t, iter, end, allowedTags, res) ==
  LET parsed == parse_element(t, iter, end, allowedTags)
  IN  IF parsed.ok
      THEN parse_elements_loop(t, parsed.iter, end, allowedTags,
                               Append(res, parsed.elem))
      ELSE IF iter # end THEN nullopt
      ELSE Some(res)

\* lines 206-231: the scan of a BLOCK body
parse_block_loop(t, end, res, currentTextStart, contentStart, lastTagSpot, nextTagSpot, substr) ==
  IF nextTagSpot = end THEN NoElement(currentTextStart)
  ELSE
    LET elems == parse_elements(t, lastTagSpot, nextTagSpot - 1, "ALL")
    IN  IF ~elems.has_value THEN NoElement(currentTextStart)
        ELSE
          LET content == res.content.value \o elems.value
          IN  IF starts_with_trails_newline_ws(t, nextTagSpot, end, substr)
              THEN
                LET iter == nextTagSpot + Len(substr)
                IN  AnElement(iter,
                      [res EXCEPT
                         !.content    = Some(content),
                         !.origText   = range_to_view(currentTextStart, iter),
                         !.rawContent = Some(BlockRawContent(contentStart,
                                                             nextTagSpot))])
              ELSE
                LET tag == parse_tag(t, nextTagSpot, end, "ALL")
                IN  IF tag.iter = end \/ ~tag.ok
                    THEN NoElement(currentTextStart)
                    ELSE parse_block_loop(t, end,
                           [res EXCEPT !.content = Some(Append(content, tag.elem))],
                           currentTextStart, contentStart, tag.iter,
                           find_after_newline_ws(t, tag.iter, end, TILDE),
                           substr)

\* lines 168-234: what follows the name and the props
parse_tag_tail(t, iter, end, allowedTags, res, segStart) ==
  LET currentTextStart == iter
  IN  IF CharAt(t, segStart) = TILDE
      THEN AnElement(segStart + 1,
             [res EXCEPT !.origText = range_to_view(currentTextStart, segStart + 1)])
      ELSE IF CharAt(t, segStart) = "{"
      THEN
        LET contentStart == segStart + 1
            contentEnd   == find_not_escaped_stack(t, segStart, end, "}", "{",
                                                   BACKSLASH)
        IN  IF contentEnd = end THEN NoElement(iter)
            ELSE AnElement(contentEnd + 1,
                   [res EXCEPT
                      !.type       = "BRACE",
                      !.origText   = range_to_view(currentTextStart, contentEnd + 1),
                      !.rawContent = Some(range_to_view(contentStart, contentEnd)),
                      !.content    = parse_elements(t, contentStart, contentEnd,
                                                    "BRACE_ONLY")])
      ELSE IF allowedTags = "ALL"
      THEN
        LET newline == Find(t, segStart, end, NL)
        IN  IF newline = end \/ newline + 1 = end THEN NoElement(iter)
            ELSE
              LET contentStart == newline + 1
                  endDelim == EndDelim(t, res)
                  substr == <<TILDE>> \o endDelim \o <<TILDE>>
              IN  parse_block_loop(t, end,
                    [res EXCEPT !.type = "BLOCK", !.content = Some(<<>>)],
                    currentTextStart, contentStart, contentStart,
                    find_after_newline_ws(t, contentStart, end, TILDE),
                    substr)
      ELSE NoElement(iter)

\* lines 114-166: the name and the props
parse_tag(t, iter, end, allowedTags) ==
  IF iter = end THEN NoElement(iter)
  ELSE IF t[iter] # TILDE THEN NoElement(iter)
  ELSE
    LET currentTextStart == iter
        tagNameStart     == currentTextStart + 1
        tagNameEndOpt    == grab_tag_name(t, tagNameStart, end)
    IN  IF ~tagNameEndOpt.has_value THEN NoElement(iter)
        ELSE
          LET res == [kind       |-> "Tag",
                      type       |-> "EOL",
                      origText   |-> range_to_view(currentTextStart, iter),
                      tagName    |-> range_to_view(tagNameStart, tagNameEndOpt.value),
                      props      |-> EmptyProps,
                      content    |-> nullopt,
                      rawContent |-> nullopt]
              segStart == tagNameEndOpt.value
          IN  IF t[segStart] = TILDE
              THEN AnElement(segStart + 1,
                     [res EXCEPT !.origText =
                        range_to_view(currentTextStart, segStart + 1)])
              ELSE IF t[segStart] = "["
              THEN
                LET propStart == segStart + 1
                    propEnd   == find_not_quoted(t, segStart, end, "]")
                    props     == parse_props(t, propStart, propEnd)
                IN  IF propEnd = end THEN NoElement(iter)
                    ELSE IF ~props.has_value THEN NoElement(iter)
                    ELSE parse_tag_tail(t, iter, end, allowedTags,
                           [res EXCEPT !.props = props.value], propEnd + 1)
              ELSE parse_tag_tail(t, iter, end, allowedTags, res, segStart)

parse_element(t, iter, end, allowedTags) ==
  LET elem == parse_content(t, iter, end)
  IN  IF elem.ok THEN elem ELSE parse_tag(t, iter, end, allowedTags)

\* a policy that accepts every tag form after every element
NextAllowedTagsAll(t, parsed) == "ALL"

\* the std::visit of lines 260-263
NextAllowedTags(t, parsed) ==
  IF parsed.kind = "Content"
  THEN IF ends_with_newline_ws(ViewText(t, parsed.content))
       THEN "ALL" ELSE "BRACE_ONLY"
  ELSE IF ends_with_newline_ws(ViewText(t, parsed.origText))
          \/ parsed.type = "BLOCK"
       THEN "ALL" ELSE "BRACE_ONLY"

Document(origText, elements) ==
  [kind |-> "Document", origText |-> origText, elements |-> elements]
ParseError(code) == [kind |-> "ParseError", code |-> code]

RECURSIVE parse_loop(_, _, _, _, _)
parse_loop(t, iter, end, allowedTags, elements) ==
  LET parsed == parse_element(t, iter, end, allowedTags)
  IN  IF parsed.ok
      THEN parse_loop(t, parsed.iter, end, NextAllowedTags(t, parsed.elem),
                      Append(elements, parsed.elem))
      ELSE IF iter # end THEN ParseError("UNEXPECTED_CHARACTER")
      ELSE Document(t, elements)

\* generator::parse::mml::parse(std::shared_ptr<std::string>)
NullText == [null |-> TRUE, str |-> <<>>]
TextOf(str) == [null |-> FALSE, str |-> str]

parse(txt) ==
  IF txt.null THEN ParseError("NULL_INPUT")
  ELSE IF txt.str = <<>> THEN Document(txt.str, <<>>)
  ELSE parse_loop(txt.str, 1, Len(txt.str) + 1, "ALL", <<>>)

\* ---------------------------------------------------------------------
\* Inputs of the MML parser
\* ---------------------------------------------------------------------
MaxFrags      == 4
MaxBlockFrags == 4

\* all concatenations of at most n fragments of F
RECURSIVE Concats(_, _)
Concats(F, n) ==
  IF n = 0 THEN {<<>>}
  ELSE LET shorter == Concats(F, n - 1)
       IN  {<<>>} \cup {f \o s : f \in F, s \in shorter}

\* tag openers, closers, braces, escapes, line breaks and plain content
CharFrags ==
  { <<"~", "a">>, <<"~">>, <<"\n">>, <<"1">>, <<"{">>, <<"}">>, <<" ">>,
    <<"\\">> }

\* the pieces of BLOCK tags with the default and with a `delim` terminator,
\* and the opener of a BLOCK tag nested at the start of a body line
BlockFrags ==
  { <<"~", "a", "\n">>,
    <<"~", "a", "[", "d", "e", "l", "i", "m", "=", "b", "]", "\n">>,
    <<"\n", "~", "a", "~">>, <<"\n", " ", "~", "b", "~">>,
    <<"~", "a", "~">>, <<"~", "a", "{", "1", "}">>, <<"1">>, <<"\n">>,
    <<"\n", "~", "a", "\n">> }


InitMml ==
  /\ text \in {TextOf(s) : s \in Concats(CharFrags, MaxFrags)
                                   \cup Concats(BlockFrags, MaxBlockFrags)}
              \cup {NullText}
  /\ doc = NoResult
  /\ pairs = <<>>
  /\ SexprIdle
  /\ CtxIdle

\* the caller hands `text` to generator::parse::mml::parse
ParseMml ==
  /\ doc = NoResult
  /\ doc' = parse(text)
  /\ UNCHANGED <<text, pairs, sexprVars, ctxVars>>

NextMml == ParseMml

SpecMml == InitMml /\ [][NextMml]_vars

\* ---------------------------------------------------------------------
\* Inputs of the props parser: a tag written from a list of (key, value)
\* ---------------------------------------------------------------------
MaxProps == 4

PropKeys == { <<"k">>, <<"l", "2">> }

\* a value is written bare or between double quotes
PropValues ==
  { [quoted |-> FALSE, value |-> <<"v">>],
    [quoted |-> FALSE, value |-> <<"w", "\\", ";", "v">>],
    [quoted |-> TRUE,  value |-> <<"x", ";", "]">>] }

PropPairs == [key : PropKeys, val : PropValues]

RECURSIVE SeqsUpTo(_, _)
SeqsUpTo(S, n) ==
  IF n = 0 THEN {<<>>}
  ELSE LET shorter == SeqsUpTo(S, n - 1)
       IN  {<<>>} \cup {<<x>> \o s : x \in S, s \in shorter}

WriteProp(p) ==
  p.key \o <<"=">> \o
  (IF p.val.quoted THEN <<DQUOTE>> \o p.val.value \o <<DQUOTE>>
                   ELSE p.val.value)

RECURSIVE WriteProps(_)
WriteProps(ps) ==
  IF ps = <<>> THEN <<>>
  ELSE IF Len(ps) = 1 THEN WriteProp(ps[1])
  ELSE WriteProp(ps[1]) \o <<";">> \o WriteProps(Tail(ps))

WriteTag(ps) == <<"~", "a", "[">> \o WriteProps(ps) \o <<"]", "~">>

InitProps ==
  /\ pairs \in SeqsUpTo(PropPairs, MaxProps)
  /\ text = TextOf(WriteTag(pairs))
  /\ doc = NoResult
  /\ SexprIdle
  /\ CtxIdle

SpecProps == InitProps /\ [][NextMml]_vars

\* ---------------------------------------------------------------------
\* Sexpr values (eval_engine.cpp)
\* ---------------------------------------------------------------------
\* A token string, a name and a String value are sequences of
\* one-character strings.
NATIVE == <<"_", "_", "n", "a", "t", "i", "v", "e", "_", "_">>

\* Context::current_namespace()
CORE == <<"c", "o", "r", "e">>

Nil               == [t |-> "nil"]
Bool(b)           == [t |-> "bool", v |-> b]
Number(n)         == [t |-> "num", v |-> n]
String(s)         == [t |-> "str", v |-> s]
Atom(tok)         == [t |-> "atom", token |-> tok]
Symbol(ns, tok)   == [t |-> "sym", ns |-> ns, token |-> tok]
List(vs)          == [t |-> "list", v |-> vs]
Vector(vs)        == [t |-> "vec", v |-> vs]
Map(m)            == [t |-> "map", v |-> m]

\* std::tuple<std::string, NativeFunc>: the printed name and the function
NativeFunc(name, fn) == [t |-> "native", name |-> name, fn |-> fn]

\* Func{args, varArgs, statements, frame}
Func(args, varArgs, statements, frame) ==
  [t |-> "func", args |-> args, varArgs |-> varArgs,
   statements |-> statements, frame |-> frame]

\* Macro{args, varArgs, statements}
Macro(args, varArgs, statements) ==
  [t |-> "macro", args |-> args, varArgs |-> varArgs,
   statements |-> statements]

\* Value::operator<=>(a, b) == 0, the equivalence std::map<Value, Value>
\* keys are told apart by.  Two values of an alternative without an
\* overload of its own (a list, a Func) compare by variant index alone.
RECURSIVE ValueEquiv(_, _)
ValueEquiv(a, b) ==
  IF a.t # b.t THEN FALSE
  ELSE CASE a.t = "native" -> a.name = b.name
         [] a.t = "vec" ->
              /\ Len(a.v) = Len(b.v)
              /\ \A i \in 1..Len(a.v) : ValueEquiv(a.v[i], b.v[i])
         [] a.t = "map" ->
              /\ Cardinality(a.v) = Cardinality(b.v)
              /\ \A p \in a.v : \E q \in b.v :
                    ValueEquiv(p[1], q[1]) /\ ValueEquiv(p[2], q[2])
         [] a.t \in {"list", "func", "macro"} -> TRUE
         [] OTHER -> a = b

\* map[key] = val on a std::map<Value, Value>, held as a set of pairs
MapAssign(m, key, val) ==
  IF \E p \in m : ValueEquiv(p[1], key)
  THEN {IF ValueEquiv(p[1], key) THEN <<p[1], val>> ELSE p : p \in m}
  ELSE m \cup {<<key, val>>}

\* A double is modelled exactly, as the fraction <<n, d>> of two integers
\* with d >= 0; d = 0 stands for an infinity (n # 0) or a NaN (n = 0).  A
\* Number that is an integer holds it in `v`; any other holds the reduced
\* fraction in `v` and `den`.
Abs(n)  == IF n < 0 THEN 0 - n ELSE n
Sign(n) == IF n < 0 THEN 0 - 1 ELSE IF n > 0 THEN 1 ELSE 0

RECURSIVE GCD(_, _)
GCD(a, b) == IF b = 0 THEN a ELSE GCD(b, a % b)

Ratio(a, b) == [t |-> "num", v |-> a, den |-> b]
IsRatio(val) == "den" \in DOMAIN val

Reduce(f) ==
  IF f[2] = 0 THEN <<Sign(f[1]), 0>>
  ELSE LET g == GCD(Abs(f[1]), f[2])
       IN  <<Sign(f[1]) * (Abs(f[1]) \div g), f[2] \div g>>

FractionOf(val) == IF IsRatio(val) THEN <<val.v, val.den>> ELSE <<val.v, 1>>

FromFraction(f) ==
  LET r == Reduce(f)
  IN  IF r[2] = 1 THEN Number(r[1]) ELSE Ratio(r[1], r[2])

\* ---------------------------------------------------------------------
\* Sexpr reader (eval_engine.cpp)
\* ---------------------------------------------------------------------
SexprDigits == {"0", "1", "2", "3", "4", "5", "6", "7", "8", "9"}

DigitValue(c) ==
  CASE c = "0" -> 0 [] c = "1" -> 1 [] c = "2" -> 2 [] c = "3" -> 3
    [] c = "4" -> 4 [] c = "5" -> 5 [] c = "6" -> 6 [] c = "7" -> 7
    [] c = "8" -> 8 [] c = "9" -> 9

str_to_token(s) ==
  LET ch == s[1]
  IN  [type |->
         IF ch = "[" THEN "BRACKET_START"
         ELSE IF ch = "]" THEN "BRACKET_END"
         ELSE IF ch = "(" THEN "PAREN_START"
         ELSE IF ch = ")" THEN "PAREN_END"
         ELSE IF ch = "{" THEN "BRACE_START"
         ELSE IF ch = "}" THEN "BRACE_END"
         ELSE IF ch \in SexprDigits \/ ((ch = "+" \/ ch = "-") /\ Len(s) > 1)
         THEN "NUMBER"
         ELSE IF ch = ":" THEN "ATOM"
         ELSE IF ch = DQUOTE THEN "STRING"
         ELSE IF s = <<"n", "i", "l">> THEN "NIL"
         ELSE IF s = <<"t", "r", "u", "e">> THEN "TRUE"
         ELSE IF s = <<"f", "a", "l", "s", "e">> THEN "FALSE"
         ELSE "SYMBOL",
       sv |-> s]

is_end_token(t) == t = "BRACE_END" \/ t = "BRACKET_END" \/ t = "PAREN_END"

is_start_token(t) ==
  t = "BRACE_START" \/ t = "BRACKET_START" \/ t = "PAREN_START"

get_expected_end(t) ==
  CASE t = "BRACKET_START" -> "BRACKET_END"
    [] t = "BRACE_START"   -> "BRACE_END"
    [] t = "PAREN_START"   -> "PAREN_END"
    [] OTHER               -> "INVALID"

RECURSIVE Pow10(_)
Pow10(k) == IF k = 0 THEN 1 ELSE 10 * Pow10(k - 1)

\* the first index from i on whose character is not in `chars`
RECURSIVE SkipChars(_, _, _)
SkipChars(s, i, chars) ==
  IF i > Len(s) \/ s[i] \notin chars THEN i
  ELSE SkipChars(s, i + 1, chars)

RECURSIVE DigitsValue(_, _, _)
DigitsValue(s, i, acc) ==
  IF i > Len(s) \/ s[i] \notin SexprDigits THEN acc
  ELSE DigitsValue(s, i + 1, 10 * acc + DigitValue(s[i]))

\* the digits from `start` to intEnd, with the fraction that follows when
\* a point and a digit come next, as the fraction <<n, d>>
DecimalAt(s, start, intEnd) ==
  IF /\ intEnd > start
     /\ intEnd < Len(s)
     /\ s[intEnd] = "."
     /\ s[intEnd + 1] \in SexprDigits
  THEN <<DigitsValue(s, intEnd + 1, DigitsValue(s, start, 0)),
         Pow10(SkipChars(s, intEnd + 1, SexprDigits) - intEnd - 1)>>
  ELSE <<DigitsValue(s, start, 0), 1>>

WithSign(f, minus) == IF minus THEN <<0 - f[1], f[2]>> ELSE f

\* strtod on a NUMBER token: an optional sign, digits, and a fraction when
\* a point and a digit follow; the result is the fraction <<n, d>>.  The
\* sign of a zero is not kept.
strtod(s) ==
  WithSign(DecimalAt(s, IF s[1] = "-" \/ s[1] = "+" THEN 2 ELSE 1,
                     SkipChars(s, IF s[1] = "-" \/ s[1] = "+" THEN 2 ELSE 1,
                               SexprDigits)),
           s[1] = "-")

\* std::string::find_last_of("."): 0 stands for npos
RECURSIVE find_last_of_dot(_, _)
find_last_of_dot(s, i) ==
  IF i = 0 THEN 0
  ELSE IF s[i] = "." THEN i
  ELSE find_last_of_dot(s, i - 1)

\* unescape: \t, then (\r)?\n, then \x -> x, each over the whole string
RECURSIVE ReplaceEscape(_, _, _)
ReplaceEscape(s, letter, by) ==
  IF Len(s) < 2 THEN s
  ELSE IF s[1] = BACKSLASH /\ s[2] = letter
       THEN <<by>> \o ReplaceEscape(SubSeq(s, 3, Len(s)), letter, by)
       ELSE <<s[1]>> \o ReplaceEscape(Tail(s), letter, by)

RECURSIVE ReplaceNewline(_)
ReplaceNewline(s) ==
  IF Len(s) < 2 THEN s
  ELSE IF Len(s) >= 4 /\ SubSeq(s, 1, 4) = <<BACKSLASH, "r", BACKSLASH, "n">>
       THEN <<NL>> \o ReplaceNewline(SubSeq(s, 5, Len(s)))
       ELSE IF s[1] = BACKSLASH /\ s[2] = "n"
       THEN <<NL>> \o ReplaceNewline(SubSeq(s, 3, Len(s)))
       ELSE <<s[1]>> \o ReplaceNewline(Tail(s))

RECURSIVE ReplaceMisc(_)
ReplaceMisc(s) ==
  IF Len(s) < 2 THEN s
  ELSE IF s[1] = BACKSLASH /\ s[2] # NL /\ s[2] # CR
       THEN <<s[2]>> \o ReplaceMisc(SubSeq(s, 3, Len(s)))
       ELSE <<s[1]>> \o ReplaceMisc(Tail(s))

unescape(str) == ReplaceMisc(ReplaceNewline(ReplaceEscape(str, "t", TAB)))

ParseResult(vals)       == [kind |-> "ParseResult", vals |-> vals]
ContextParseError(msg)  == [kind |-> "ParseError", msg |-> msg]
AValue(val, begin)      == [kind |-> "Value", val |-> val, begin |-> begin]

\* the process died (segmentation fault, abort)
Crash == [kind |-> "Crash"]

\* What undefined behaviour does in the build: the process dies, or the
\* stray read yields something harmless and execution goes on.
UBOutcomes == {"crash", "benign"}

\* `*begin` with begin at the end of the token range (lines 527, 533, 541,
\* 549, 551) is undefined.  When the process survives, the stray token has
\* no bracket type, and getValue ends at line 586.
ReadPastEnd(ub) ==
  IF ub = "crash" THEN Crash ELSE ContextParseError("Invalid Token")

RECURSIVE getValue(_, _, _)
RECURSIVE getSequence(_, _, _, _, _)
RECURSIVE getMap(_, _, _, _)

\* the loops of lines 531-537 and 539-545: values up to the token endType
getSequence(toks, begin, endType, val, ub) ==
  IF begin > Len(toks) THEN ReadPastEnd(ub)
  ELSE IF toks[begin].type = endType THEN AValue(val, begin + 1)
  ELSE LET v == getValue(toks, begin, ub)
       IN  IF v.kind # "Value" THEN v
           ELSE getSequence(toks, v.begin, endType, Append(val, v.val), ub)

\* the loop of lines 547-558
getMap(toks, begin, map, ub) ==
  IF begin > Len(toks) THEN ReadPastEnd(ub)
  ELSE IF toks[begin].type = "BRACE_END" THEN AValue(map, begin + 1)
  ELSE LET key == getValue(toks, begin, ub)
       IN  IF key.kind # "Value" THEN key
           ELSE IF key.begin > Len(toks) THEN ReadPastEnd(ub)
           ELSE IF toks[key.begin].type = "BRACE_END"
           THEN ContextParseError("Missing value in map")
           ELSE LET val == getValue(toks, key.begin, ub)
                IN  IF val.kind # "Value" THEN val
                    ELSE getMap(toks, val.begin,
                                MapAssign(map, key.val, val.val), ub)

getValue(toks, begin, ub) ==
  IF begin > Len(toks) THEN ReadPastEnd(ub)
  ELSE
    LET token == toks[begin]
        next  == begin + 1
    IN  CASE token.type = "PAREN_START" ->
               LET r == getSequence(toks, next, "PAREN_END", <<>>, ub)
               IN  IF r.kind # "Value" THEN r ELSE AValue(List(r.val), r.begin)
          [] token.type = "BRACKET_START" ->
               LET r == getSequence(toks, next, "BRACKET_END", <<>>, ub)
               IN  IF r.kind # "Value" THEN r
                   ELSE AValue(Vector(r.val), r.begin)
          [] token.type = "BRACE_START" ->
               LET r == getMap(toks, next, {}, ub)
               IN  IF r.kind # "Value" THEN r ELSE AValue(Map(r.val), r.begin)
          [] token.type = "NUMBER" -> AValue(FromFraction(strtod(token.sv)), next)
          [] token.type = "ATOM" ->
               AValue(Atom(SubSeq(token.sv, 2, Len(token.sv))), next)
          [] token.type = "SYMBOL" ->
               LET pos == find_last_of_dot(token.sv, Len(token.sv))
               IN  IF pos # 0
                   THEN AValue(Symbol(Some(SubSeq(token.sv, 1, pos - 1)),
                                      SubSeq(token.sv, pos + 1, Len(token.sv))),
                               next)
                   ELSE AValue(Symbol(nullopt, token.sv), next)
          [] token.type = "STRING" ->
               AValue(String(unescape(SubSeq(token.sv, 2, Len(token.sv) - 1))),
                      next)
          [] token.type = "NIL"   -> AValue(Nil, next)
          [] token.type = "TRUE"  -> AValue(Bool(TRUE), next)
          [] token.type = "FALSE" -> AValue(Bool(FALSE), next)
          [] OTHER -> ContextParseError("Invalid Token")

\* the stack scan of lines 597-609; expected is the stack, top first
RECURSIVE CheckBrackets(_, _, _)
CheckBrackets(toks, i, expected) ==
  IF i > Len(toks) THEN "ok"
  ELSE IF is_start_token(toks[i].type)
  THEN CheckBrackets(toks, i + 1, <<get_expected_end(toks[i].type)>> \o expected)
  ELSE IF is_end_token(toks[i].type)
  THEN IF expected = <<>> \/ Head(expected) # toks[i].type
       THEN toks[i].type
       ELSE CheckBrackets(toks, i + 1, Tail(expected))
  ELSE CheckBrackets(toks, i + 1, expected)

\* the loop of lines 614-617
RECURSIVE ReadValues(_, _, _, _)
ReadValues(toks, begin, res, ub) ==
  IF begin = Len(toks) + 1 THEN ParseResult(res)
  ELSE LET v == getValue(toks, begin, ub)
       IN  IF v.kind # "Value" THEN v
           ELSE ReadValues(toks, v.begin, Append(res, v.val), ub)

\* Context::parse on the token strings of its argument: the matches of the
\* regular expression of line 590 that are not empty
Context_parse(strs, ub) ==
  LET toks    == [i \in 1..Len(strs) |-> str_to_token(strs[i])]
      checked == CheckBrackets(toks, 1, <<>>)
  IN  IF checked # "ok"
      THEN ContextParseError(<<"Unexpected token ", checked>>)
      ELSE ReadValues(toks, 1, <<>>, ub)

\* ---------------------------------------------------------------------
\* The tokens of a text: ranges::views::tokenize over the regular
\* expression of line 590, whose alternatives are tried in order at each
\* position.  Each Match operator gives the index after the match, and 0
\* when the alternative does not match.
\* ---------------------------------------------------------------------
SexprLetters ==
  { "a", "b", "c", "d", "e", "f", "g", "h", "i", "j", "k", "l", "m", "n",
    "o", "p", "q", "r", "s", "t", "u", "v", "w", "x", "y", "z",
    "A", "B", "C", "D", "E", "F", "G", "H", "I", "J", "K", "L", "M", "N",
    "O", "P", "Q", "R", "S", "T", "U", "V", "W", "X", "Y", "Z" }

\* [a-zA-Z_\*\/\$\@\!\?]
SymbolStartChars == SexprLetters \cup {"_", "*", "/", "$", "@", "!", "?"}

\* [\.\w\-\+\=\*\/\$\@\!\?]
SymbolChars ==
  SexprLetters \cup SexprDigits
    \cup {"_", ".", "-", "+", "=", "*", "/", "$", "@", "!", "?"}

BracketChars == {"(", "[", "{", "}", "]", ")"}

\* :?[a-zA-Z_\*\/\$\@\!\?][\.\w\-\+\=\*\/\$\@\!\?]*
MatchSymbol(s, p) ==
  LET q == IF s[p] = ":" THEN p + 1 ELSE p
  IN  IF q <= Len(s) /\ s[q] \in SymbolStartChars
      THEN SkipChars(s, q + 1, SymbolChars)
      ELSE 0

\* [\(\[\{\}\]\)]
MatchBracket(s, p) == IF s[p] \in BracketChars THEN p + 1 ELSE 0

\* [\-\+]?(\d+(\.\d+)?)? : this alternative matches the empty string too,
\* and then gives p
NumberEnd(s, q, intEnd) ==
  IF intEnd > q /\ intEnd < Len(s) /\ s[intEnd] = "."
                /\ s[intEnd + 1] \in SexprDigits
  THEN SkipChars(s, intEnd + 1, SexprDigits)
  ELSE intEnd

MatchNumber(s, p) ==
  NumberEnd(s, IF s[p] = "-" \/ s[p] = "+" THEN p + 1 ELSE p,
            SkipChars(s, IF s[p] = "-" \/ s[p] = "+" THEN p + 1 ELSE p,
                      SexprDigits))

\* ([^\\"]|(\\.))*" from index i on, after the opening quote
RECURSIVE MatchStringBody(_, _)
MatchStringBody(s, i) ==
  IF i > Len(s) THEN 0
  ELSE IF s[i] = DQUOTE THEN i + 1
  ELSE IF s[i] = BACKSLASH
  THEN IF i + 1 <= Len(s) /\ s[i + 1] \notin {NL, "\r"}
       THEN MatchStringBody(s, i + 2)
       ELSE 0
  ELSE MatchStringBody(s, i + 1)

MatchString(s, p) == IF s[p] = DQUOTE THEN MatchStringBody(s, p + 1) ELSE 0

\* The matches from position p on, the empty ones filtered out (line 592).
\* The search at p always matches at p, because the number alternative
\* matches the empty string; after an empty match the iterator searches
\* again at p for a match that is not empty, which is the only way the
\* string alternative is reached, and then moves one character on.
FirstMatch(p, sym, brk, num, str) ==
  IF sym # 0 THEN sym
  ELSE IF brk # 0 THEN brk
  ELSE IF num > p THEN num
  ELSE str

MatchEnd(s, p) ==
  FirstMatch(p, MatchSymbol(s, p), MatchBracket(s, p), MatchNumber(s, p),
             MatchString(s, p))

RECURSIVE NextTokens(_, _, _, _)
tokenize(s, p, acc) ==
  IF p > Len(s) THEN acc ELSE NextTokens(s, p, acc, MatchEnd(s, p))

NextTokens(s, p, acc, end) ==
  IF end = 0 THEN tokenize(s, p + 1, acc)
  ELSE tokenize(s, end, Append(acc, SubSeq(s, p, end - 1)))

\* Context::parse on a text
Context_parse_text(str, ub) == Context_parse(tokenize(str, 1, <<>>), ub)

\* ---------------------------------------------------------------------
\* Reading a token stream
\* ---------------------------------------------------------------------
MaxTokens == 4

TokenStrings ==
  { <<"(">>, <<")">>, <<"[">>, <<"]">>, <<"{">>, <<"}">>, <<"1">>,
    <<"a", ".", "b">> }

InitSexpr ==
  /\ tokens \in SeqsUpTo(TokenStrings, MaxTokens)
  /\ parseRes = NoResult
  /\ MmlIdle
  /\ CtxIdle

\* the caller hands the text to Context::parse
ParseSexpr ==
  /\ parseRes = NoResult
  /\ \E ub \in UBOutcomes : parseRes' = Context_parse(tokens, ub)
  /\ UNCHANGED <<tokens, mmlVars, ctxVars>>

NextSexpr == ParseSexpr

SpecSexpr == InitSexpr /\ [][NextSexpr]_vars

\* ---------------------------------------------------------------------
\* Frames (eval_engine.cpp)
\* ---------------------------------------------------------------------
\* A std::map<std::string, Value> is a function from names to Values; a
\* Frame is its map `current` and its `parent`.
EmptyBindings == <<>>

Bind(map, key, val) ==
  [k \in (DOMAIN map) \cup {key} |-> IF k = key THEN val ELSE map[k]]

NullFrame == [null |-> TRUE]
Frame(current, parent) ==
  [null |-> FALSE, current |-> current, parent |-> parent]

\* the loop of lines 40-44: a copy of every layer above `layer`, the last
\* of which gets `frame` for parent
RECURSIVE CloneLayers(_, _)
CloneLayers(layer, frame) ==
  IF layer.null THEN frame
  ELSE Frame(layer.current, CloneLayers(layer.parent, frame))

add_root_frame(self, frame) ==
  Frame(self.current, CloneLayers(self.parent, frame))

LetName      == <<"l", "e", "t">>
FrameLetName == <<"_", "_", "f", "r", "a", "m", "e", ".", "l", "e", "t">>

\* Context::make_frame: `parent` is never read, the new Frame is
\* default-constructed and has no parent
make_frame(parent) ==
  Frame(Bind(EmptyBindings, LetName, NativeFunc(FrameLetName, "let")),
        NullFrame)

\* the frame walk of lines 319-324
RECURSIVE FrameFind(_, _)
FrameFind(curFrame, token) ==
  IF curFrame.null THEN nullopt
  ELSE IF token \in DOMAIN curFrame.current
  THEN Some(curFrame.current[token])
  ELSE FrameFind(curFrame.parent, token)

\* ---------------------------------------------------------------------
\* Printer (operator<< on Value)
\* ---------------------------------------------------------------------
RECURSIVE Join(_, _)
Join(strs, sep) ==
  IF strs = <<>> THEN <<>>
  ELSE IF Len(strs) = 1 THEN strs[1]
  ELSE strs[1] \o sep \o Join(Tail(strs), sep)

DigitChar(d) ==
  CASE d = 0 -> "0" [] d = 1 -> "1" [] d = 2 -> "2" [] d = 3 -> "3"
    [] d = 4 -> "4" [] d = 5 -> "5" [] d = 6 -> "6" [] d = 7 -> "7"
    [] d = 8 -> "8" [] d = 9 -> "9"

RECURSIVE NatChars(_)
NatChars(n) ==
  IF n < 10 THEN <<DigitChar(n)>>
  ELSE NatChars(n \div 10) \o <<DigitChar(n % 10)>>

\* the decimal exponent of a / d for a > 0, found from a first guess
RECURSIVE Exponent10(_, _, _)
Exponent10(a, d, e) ==
  IF e >= 0 /\ a >= d * Pow10(e + 1) THEN Exponent10(a, d, e + 1)
  ELSE IF e >= 0 /\ a < d * Pow10(e) THEN Exponent10(a, d, e - 1)
  ELSE IF e < 0 /\ a * Pow10(0 - e) < d THEN Exponent10(a, d, e - 1)
  ELSE e

\* quotient and remainder of a * 10^k by d, one decimal digit at a time
RECURSIVE ScaledDivision(_, _, _)
ScaledDivision(qr, d, k) ==
  IF k = 0 THEN qr
  ELSE ScaledDivision(<<10 * qr[1] + (10 * qr[2]) \div d, (10 * qr[2]) % d>>,
                      d, k - 1)

\* the quotient rounded to the nearest integer, a tie going to the even one
RoundHalfEven(qr, d) ==
  IF 2 * qr[2] > d \/ (2 * qr[2] = d /\ qr[1] % 2 = 1) THEN qr[1] + 1
  ELSE qr[1]

RECURSIVE StripZeros(_)
StripZeros(s) ==
  IF s # <<>> /\ s[Len(s)] = "0" THEN StripZeros(SubSeq(s, 1, Len(s) - 1))
  ELSE s

Zeros(k) == [i \in 1..k |-> "0"]

\* the precision of a default-constructed std::ostream
PRECISION == 6

\* a / d as PRECISION significant digits m and a decimal exponent:
\* the rounding may carry into one more digit
Carried(m, e) ==
  IF m = 1000000 THEN <<100000, e + 1>> ELSE <<m, e>>

\* a * 10^k / d rounded
RoundScaled(a, d, k) ==
  RoundHalfEven(ScaledDivision(<<a \div d, a % d>>, d, k), d)

Significand(a, d, e) ==
  Carried(RoundScaled(a,
                      IF e >= PRECISION THEN d * Pow10(e - PRECISION + 1)
                      ELSE d,
                      IF e >= PRECISION THEN 0 ELSE PRECISION - 1 - e),
          e)

AfterPoint(s) == IF s = <<>> THEN <<>> ELSE <<".">> \o s

ExponentChars(e) ==
  (IF e < 0 THEN <<"-">> ELSE <<"+">>)
    \o (IF Abs(e) < 10 THEN <<"0">> ELSE <<>>)
    \o NatChars(Abs(e))

\* the %g style: exponent form when e < -4 or e >= PRECISION, fixed form
\* otherwise, trailing zeros removed in both
GeneralFormat(digits, e) ==
  IF e < 0 - 4 \/ e >= PRECISION
  THEN <<digits[1]>> \o AfterPoint(StripZeros(Tail(digits)))
                    \o <<"e">> \o ExponentChars(e)
  ELSE IF e >= 0
  THEN SubSeq(digits, 1, e + 1)
         \o AfterPoint(StripZeros(SubSeq(digits, e + 2, PRECISION)))
  ELSE <<"0", ".">> \o Zeros(0 - e - 1) \o StripZeros(digits)

SignificandChars(me) == GeneralFormat(NatChars(me[1]), me[2])

\* os << double with the stream's defaults: the %g conversion of a / d to
\* PRECISION significant digits.  The sign printed for a NaN is the
\* platform's and is not modelled.
DoubleChars(f) ==
  IF f[2] = 0
  THEN IF f[1] = 0 THEN <<"n", "a", "n">>
       ELSE (IF f[1] < 0 THEN <<"-">> ELSE <<>>) \o <<"i", "n", "f">>
  ELSE IF f[1] = 0 THEN <<"0">>
  ELSE (IF f[1] < 0 THEN <<"-">> ELSE <<>>)
         \o SignificandChars(Significand(Abs(f[1]), f[2],
                                         Exponent10(Abs(f[1]), f[2], 0)))

NumberChars(n) == DoubleChars(<<n, 1>>)

RECURSIVE EscapeQuotes(_)
EscapeQuotes(s) ==
  IF s = <<>> THEN <<>>
  ELSE IF s[1] = DQUOTE THEN <<BACKSLASH, DQUOTE>> \o EscapeQuotes(Tail(s))
  ELSE <<s[1]>> \o EscapeQuotes(Tail(s))

\* the pairs of a std::map<Value, Value> in iteration order; the order is
\* modelled for maps whose keys are all numbers
RECURSIVE NumberKeyOrder(_)
NumberKeyOrder(m) ==
  IF m = {} THEN <<>>
  ELSE LET least == CHOOSE p \in m : \A q \in m : p[1].v <= q[1].v
       IN  <<least>> \o NumberKeyOrder(m \ {least})

MapPairs(m) ==
  IF Cardinality(m) <= 1 \/ \A p \in m : p[1].t = "num"
  THEN NumberKeyOrder(m)
  ELSE <<>>

RECURSIVE to_string(_)
to_string(val) ==
  CASE val.t = "nil"    -> <<"n", "i", "l">>
    [] val.t = "native" ->
         <<"<", "N", "a", "t", "i", "v", "e", "F", "u", "n", "c", ":">>
           \o val.name \o <<">">>
    [] val.t = "func"   ->
         <<"(">> \o NATIVE \o <<".", "f", "n", " ", "[">>
           \o Join([i \in 1..Len(val.args) |-> val.args[i].token], <<" ">>)
           \o (IF val.varArgs.has_value
               THEN <<"&", " ">> \o val.varArgs.value.token ELSE <<>>)
           \o <<"]", " ">>
           \o Join([i \in 1..Len(val.statements) |->
                      <<"(">> \o to_string(val.statements[i]) \o <<")">>],
                   <<>>)
           \o <<")">>
    [] val.t = "macro"  ->
         <<"(">> \o NATIVE \o <<".", "m", "a", "c", "r", "o", " ", "[">>
           \o Join([i \in 1..Len(val.args) |-> val.args[i].token], <<" ">>)
           \o (IF val.varArgs.has_value
               THEN <<"&", " ">> \o val.varArgs.value.token ELSE <<>>)
           \o <<"]", " ">>
           \o Join([i \in 1..Len(val.statements) |->
                      <<"(">> \o to_string(val.statements[i]) \o <<")">>],
                   <<>>)
           \o <<")">>
    [] val.t = "map"    ->
         <<"{">>
           \o Join([i \in 1..Len(MapPairs(val.v)) |->
                      to_string(MapPairs(val.v)[i][1]) \o <<" ">>
                        \o to_string(MapPairs(val.v)[i][2])],
                   <<" ">>)
           \o <<"}">>
    [] val.t = "vec"    ->
         <<"[">> \o Join([i \in 1..Len(val.v) |-> to_string(val.v[i])], <<" ">>)
                 \o <<"]">>
    [] val.t = "list"   ->
         <<"(">> \o Join([i \in 1..Len(val.v) |-> to_string(val.v[i])], <<" ">>)
                 \o <<")">>
    [] val.t = "atom"   -> <<":">> \o val.token
    [] val.t = "sym"    ->
         (IF val.ns.has_value THEN val.ns.value \o <<".">> ELSE <<>>)
           \o val.token
    [] val.t = "str"    -> <<DQUOTE>> \o EscapeQuotes(val.v) \o <<DQUOTE>>
    [] val.t = "bool"   ->
         IF val.v THEN <<"t", "r", "u", "e">> ELSE <<"f", "a", "l", "s", "e">>
    [] val.t = "num"    -> DoubleChars(FractionOf(val))

\* Printing nil writes "nil" and then visits the empty optional (line 787),
\* which is undefined: to_string above is what the surviving process prints.
RECURSIVE PrintsNil(_)
PrintsNil(val) ==
  CASE val.t = "nil" -> TRUE
    [] val.t \in {"vec", "list"} -> \E i \in 1..Len(val.v) : PrintsNil(val.v[i])
    [] val.t = "map" -> \E p \in val.v : PrintsNil(p[1]) \/ PrintsNil(p[2])
    [] val.t \in {"func", "macro"} ->
         \E i \in 1..Len(val.statements) : PrintsNil(val.statements[i])
    [] OTHER -> FALSE

\* ---------------------------------------------------------------------
\* Evaluator (eval_engine.cpp)
\* ---------------------------------------------------------------------
\* The state an evaluation works on: Context::symbols and Context::buf.
CtxState(syms, buffer) == [symbols |-> syms, buf |-> buffer]

\* what a call into the evaluator does: it returns a Value, throws, or the
\* process dies
Returned(st, val) == [kind |-> "value", st |-> st, val |-> val]
Thrown(st, msg)   == [kind |-> "throw", st |-> st, msg |-> msg]
Crashed(st)       == [kind |-> "crash", st |-> st]

\* what undefined behaviour at a throw site does
UBThrown(st, msg, ub) == IF ub = "crash" THEN Crashed(st) ELSE Thrown(st, msg)

N_buf         == <<"b", "u", "f">>
N_str         == <<"s", "t", "r">>
N_def         == <<"d", "e", "f">>
N_1def        == <<"_", "1", "d", "e", "f">>
N_add         == <<"a", "d", "d">>
N_sub         == <<"s", "u", "b">>
N_mul         == <<"m", "u", "l">>
N_div         == <<"d", "i", "v">>
N_invert_sign == <<"i", "n", "v", "e", "r", "t", "-", "s", "i", "g", "n">>
N_truthy      == <<"t", "r", "u", "t", "h", "y">>

\* std::map::operator[] on symbols: a namespace that is looked at exists
\* afterwards
TouchNs(syms, ns) ==
  IF ns \in DOMAIN syms THEN syms ELSE Bind(syms, ns, EmptyBindings)

\* Context::Context()
InitialNative ==
  Bind(Bind(Bind(Bind(Bind(Bind(Bind(Bind(Bind(EmptyBindings,
    N_buf, NativeFunc(N_buf, "buf")),
    N_str, NativeFunc(N_str, "str")),
    N_def, NativeFunc(N_1def, "def")),
    N_add, NativeFunc(N_add, "add")),
    N_sub, NativeFunc(N_sub, "sub")),
    N_mul, NativeFunc(N_mul, "mul")),
    N_div, NativeFunc(N_div, "div")),
    N_invert_sign, NativeFunc(N_invert_sign, "invert_sign")),
    N_truthy, NativeFunc(N_truthy, "truthy"))

InitialSymbols == Bind(EmptyBindings, NATIVE, InitialNative)

starts_with_chars(s, prefix) ==
  Len(s) >= Len(prefix) /\ SubSeq(s, 1, Len(prefix)) = prefix

\* std::numeric_limits<size_t>::max(), as far as a parameter count goes
SIZE_MAX == 2147483647

\* every argument of every callable is evaluated
params_to_skip_eval_for_none(val) == 0

\* strtoull(name.c_str() + 1, nullptr, 10)
params_to_skip_eval_for(val) ==
  IF val.t = "native"
  THEN IF starts_with_chars(val.name, <<"_", "_">>) THEN SIZE_MAX
       ELSE IF starts_with_chars(val.name, <<"_">>)
       THEN DigitsValue(val.name, 2, 0)
       ELSE 0
  ELSE IF val.t = "macro" THEN SIZE_MAX
  ELSE 0

\* value_to_double: nullopt stands for the throw at line 114
value_to_double(val) ==
  IF val.t = "num" THEN Some(FractionOf(val))
  ELSE IF val.t = "bool" THEN Some(IF val.v THEN <<1, 1>> ELSE <<0, 1>>)
  ELSE nullopt

\* acc + x, acc * x, acc - x and acc / x on doubles, x finite
Arith(op, acc, x) ==
  CASE op = "add" -> <<acc[1] * x[2] + x[1] * acc[2], acc[2] * x[2]>>
    [] op = "sub" -> <<acc[1] * x[2] - x[1] * acc[2], acc[2] * x[2]>>
    [] op = "mul" -> <<acc[1] * x[1], acc[2] * x[2]>>
    [] op = "div" ->
         IF x[1] = 0 THEN <<Sign(acc[1]), 0>>
         ELSE <<acc[1] * x[2] * Sign(x[1]), acc[2] * Abs(x[1])>>

\* ranges::accumulate over value_to_double: the first value that does not
\* cast throws, and printing it for the message is undefined when it holds
\* a nil
RECURSIVE Accumulate(_, _, _, _, _, _)
Accumulate(v, i, acc, op, st, ub) ==
  IF i > Len(v) THEN Returned(st, FromFraction(acc))
  ELSE LET d == value_to_double(v[i])
       IN  IF ~d.has_value
           THEN IF PrintsNil(v[i]) THEN UBThrown(st, "Cannot cast value", ub)
                ELSE Thrown(st, "Cannot cast value")
           ELSE Accumulate(v, i + 1, Reduce(Arith(op, acc, d.value)), op, st, ub)

native_add(v, st, ub) ==
  IF v = <<>> THEN Thrown(st, "Expected at least one argument")
  ELSE Accumulate(v, 1, <<0, 1>>, "add", st, ub)

native_mul(v, st, ub) ==
  IF v = <<>> THEN Thrown(st, "Expected at least one argument")
  ELSE Accumulate(v, 1, <<1, 1>>, "mul", st, ub)

\* the fold starts from value_to_double(v[0])
AccumulateFromFirst(v, op, st, ub) ==
  LET first == value_to_double(v[1])
  IN  IF ~first.has_value
      THEN IF PrintsNil(v[1]) THEN UBThrown(st, "Cannot cast value", ub)
           ELSE Thrown(st, "Cannot cast value")
      ELSE Accumulate(v, 2, first.value, op, st, ub)

\* the fold of `sub` starts from 0, as that of `add` does
native_sub_from_zero(v, st, ub) ==
  IF v = <<>> THEN Thrown(st, "Expected at least one argument")
  ELSE Accumulate(v, 1, <<0, 1>>, "sub", st, ub)

native_sub(v, st, ub) ==
  IF v = <<>> THEN Thrown(st, "Expected at least one argument")
  ELSE AccumulateFromFirst(v, "sub", st, ub)

native_div(v, st, ub) ==
  IF v = <<>> THEN Thrown(st, "Expected at least one argument")
  ELSE AccumulateFromFirst(v, "div", st, ub)

invert_sign(v, st, ub) ==
  IF Len(v) # 1 THEN Thrown(st, "Expected arity of one argument")
  ELSE LET d == value_to_double(v[1])
       IN  IF ~d.has_value
           THEN IF PrintsNil(v[1]) THEN UBThrown(st, "Cannot cast value", ub)
                ELSE Thrown(st, "Cannot cast value")
           ELSE Returned(st, FromFraction(<<0 - d.value[1], d.value[2]>>))

truthy(v, st) ==
  IF Len(v) # 1 THEN Thrown(st, "Expected arity of one argument")
  ELSE Returned(st,
         Bool(CASE v[1].t = "nil"  -> FALSE
                [] v[1].t = "bool" -> v[1].v
                [] v[1].t = "str"  -> v[1].v # <<>>
                [] v[1].t = "num"  -> v[1].v # 0 \/ IsRatio(v[1])
                [] OTHER           -> TRUE))

\* native_str: a nil adds nothing, a string adds its characters, any other
\* value is printed
RECURSIVE native_str_loop(_, _, _, _, _)
native_str_loop(v, i, ss, st, ub) ==
  IF i > Len(v) THEN Returned(st, String(ss))
  ELSE IF v[i].t = "nil" THEN native_str_loop(v, i + 1, ss, st, ub)
  ELSE IF v[i].t = "str" THEN native_str_loop(v, i + 1, ss \o v[i].v, st, ub)
  ELSE IF PrintsNil(v[i]) /\ ub = "crash" THEN Crashed(st)
  ELSE native_str_loop(v, i + 1, ss \o to_string(v[i]), st, ub)

native_str(v, st, ub) == native_str_loop(v, 1, <<>>, st, ub)

\* the lambda of lines 227-237: val.val.value() throws on a nil
RECURSIVE native_buf_loop(_, _, _, _)
native_buf_loop(v, i, st, ub) ==
  IF i > Len(v) THEN Returned(st, Nil)
  ELSE IF v[i].t = "nil" THEN Thrown(st, "bad optional access")
  ELSE IF v[i].t = "str"
  THEN native_buf_loop(v, i + 1, [st EXCEPT !.buf = @ \o v[i].v], ub)
  ELSE IF PrintsNil(v[i]) /\ ub = "crash" THEN Crashed(st)
  ELSE native_buf_loop(v, i + 1, [st EXCEPT !.buf = @ \o to_string(v[i])], ub)

native_buf(v, st, ub) == native_buf_loop(v, 1, st, ub)

\* the test of line 247
DefIsForbidden(sym) == starts_with_chars(sym.token, NATIVE \o <<".">>)

\* every def goes to the current namespace
DefNamespaceCurrent(sym) == CORE

\* line 250: sym.ns ? *sym.ns : current_namespace()
DefNamespace(sym) == IF sym.ns.has_value THEN sym.ns.value ELSE CORE

\* std::map::insert: an existing binding is kept
DefInsert(m, tok, val) == IF tok \in DOMAIN m THEN m ELSE Bind(m, tok, val)

\* line 251: symbols[ns][sym.token] = v[1]
DefAssign(m, tok, val) == Bind(m, tok, val)

\* the lambda of lines 239-253
native_def(v, st) ==
  IF Len(v) # 2 THEN Thrown(st, "Invalid arity for def! Expected 2 values!")
  ELSE IF v[1].t # "sym" THEN Thrown(st, "Must bind to a Symbol!")
  ELSE IF DefIsForbidden(v[1])
  THEN Thrown(st, "Cannot define symbols in native namespace")
  ELSE LET ns   == DefNamespace(v[1])
           syms == TouchNs(st.symbols, ns)
       IN  Returned([st EXCEPT !.symbols =
                       Bind(syms, ns, DefAssign(syms[ns], v[1].token, v[2]))],
                    Nil)

RECURSIVE evalValue(_, _, _, _)
RECURSIVE EvalEach(_, _, _, _, _, _, _)
RECURSIVE call(_, _, _, _, _)
RECURSIVE frame_let(_, _, _)
RECURSIVE LetBind(_, _, _, _, _)
RECURSIVE LetBody(_, _, _, _, _, _)

\* evalValue over the elements vals[i..], the first toSkip of them taken
\* as they are (lines 354 and 366-376); the values are returned as a Vector
EvalEach(vals, i, toSkip, frame, res, st, ub) ==
  IF i > Len(vals) THEN Returned(st, Vector(res))
  ELSE IF toSkip > 0
  THEN EvalEach(vals, i + 1, toSkip - 1, frame, Append(res, vals[i]), st, ub)
  ELSE LET r == evalValue(vals[i], frame, st, ub)
       IN  IF r.kind # "value" THEN r
           ELSE EvalEach(vals, i + 1, 0, frame, Append(res, r.val), r.st, ub)

\* the bindings loop of lines 289-300 over argVec[it..]
LetBind(argVec, it, newFrame, st, ub) ==
  IF it > Len(argVec) THEN [kind |-> "frame", st |-> st, frame |-> newFrame]
  ELSE IF argVec[it].t # "sym"
  THEN Thrown(st, "'let' can only bind to symbols!")
  ELSE IF it + 1 > Len(argVec)
  THEN UBThrown(st, "Missing value for", ub)
  ELSE LET r == evalValue(argVec[it + 1], newFrame, st, ub)
       IN  IF r.kind # "value" THEN r
           ELSE LetBind(argVec, it + 2,
                        Frame(Bind(newFrame.current, to_string(argVec[it]),
                                   r.val),
                              newFrame.parent),
                        r.st, ub)

\* the body loop of lines 301-305
LetBody(args, argIt, newFrame, lastRes0, st, ub) ==
  IF argIt > Len(args) THEN Returned(st, lastRes0)
  ELSE LET r == evalValue(args[argIt], newFrame, st, ub)
       IN  IF r.kind # "value" THEN r
           ELSE LetBody(args, argIt + 1, newFrame, r.val, r.st, ub)

\* The lambda bound to `let` by make_frame.  It holds a reference to the
\* local variable `frame` of the make_frame call that built it, which has
\* returned: copying it at line 287 is undefined.
frame_let(args, st, ub) ==
  IF args = <<>> THEN Thrown(st, "Must have arguments to 'let'")
  ELSE IF args[1].t # "vec"
  THEN Thrown(st, "First argument to 'let' must be a vector")
  ELSE IF ub = "crash" THEN Crashed(st)
  ELSE LET bound == LetBind(args[1].v, 1, make_frame(NullFrame), st, ub)
       IN  IF bound.kind # "frame" THEN bound
           ELSE LetBody(args, 2, bound.frame, Nil, bound.st, ub)

\* the parameter bindings of lines 397-409
RECURSIVE BindArgs(_, _, _, _)
BindArgs(func, params, i, funcFrame) ==
  IF i > Len(func.args)
  THEN IF func.varArgs.has_value
       THEN Frame(Bind(funcFrame.current, to_string(func.varArgs.value),
                       Vector(SubSeq(params, i, Len(params)))),
                  funcFrame.parent)
       ELSE funcFrame
  ELSE BindArgs(func, params, i + 1,
                Frame(Bind(funcFrame.current, to_string(func.args[i]),
                           params[i]),
                      funcFrame.parent))

\* a Bool head picks the first parameter, whatever the Bool
call_bool_first(b, params) == IF params # <<>> THEN params[1] ELSE Nil

\* the bool overload of lines 415-423
call_bool(b, params) ==
  IF b /\ params # <<>> THEN params[1]
  ELSE IF ~b /\ Len(params) >= 2 THEN params[2]
  ELSE Nil

call(func, params, frame, st, ub) ==
  CASE func.t = "nil" -> Thrown(st, "Cannot call 'nil'!")
    [] func.t = "func" ->
         IF Len(params) < Len(func.args)
            \/ (~func.varArgs.has_value /\ Len(func.args) # Len(params))
         THEN Thrown(st, "Expected arity")
         ELSE LET funcFrame == make_frame(add_root_frame(frame, func.frame))
              IN  evalValue(Vector(func.statements),
                            BindArgs(func, params, 1, funcFrame), st, ub)
    [] func.t = "native" ->
         (CASE func.fn = "buf"         -> native_buf(params, st, ub)
            [] func.fn = "str"         -> native_str(params, st, ub)
            [] func.fn = "def"         -> native_def(params, st)
            [] func.fn = "add"         -> native_add(params, st, ub)
            [] func.fn = "sub"         -> native_sub(params, st, ub)
            [] func.fn = "mul"         -> native_mul(params, st, ub)
            [] func.fn = "div"         -> native_div(params, st, ub)
            [] func.fn = "invert_sign" -> invert_sign(params, st, ub)
            [] func.fn = "truthy"      -> truthy(params, st)
            [] func.fn = "let"         -> frame_let(params, st, ub))
    [] func.t = "bool" -> Returned(st, call_bool(func.v, params))
    [] OTHER -> Thrown(st, "Invalid callable!")

\* the unqualified lookup of lines 318-340; fallbackNs is never filled
LookupBare(sym, frame, st) ==
  LET local == FrameFind(frame, sym.token)
      syms  == TouchNs(st.symbols, CORE)
      st2   == [st EXCEPT !.symbols = syms]
  IN  IF local.has_value THEN Returned(st, local.value)
      ELSE IF sym.token \in DOMAIN syms[CORE]
      THEN Returned(st2, syms[CORE][sym.token])
      ELSE Thrown(st2, "Could not find symbol")

\* the qualified lookup of lines 341-348
LookupQualified(sym, st) ==
  LET ns   == sym.ns.value
      syms == TouchNs(st.symbols, ns)
      st2  == [st EXCEPT !.symbols = syms]
  IN  IF sym.token \in DOMAIN syms[ns]
      THEN Returned(st2, syms[ns][sym.token])
      ELSE Thrown(st2, "Could not find symbol")

evalValue(val, frame0, st, ub) ==
  LET frame == IF frame0.null THEN make_frame(frame0) ELSE frame0
  IN  CASE val.t = "sym" ->
             IF ~val.ns.has_value THEN LookupBare(val, frame, st)
             ELSE LookupQualified(val, st)
        [] val.t = "vec" -> EvalEach(val.v, 1, 0, frame, <<>>, st, ub)
        [] val.t = "list" ->
             IF val.v = <<>> THEN Returned(st, Nil)
             ELSE LET method == evalValue(val.v[1], frame, st, ub)
                  IN  IF method.kind # "value" THEN method
                      ELSE LET params ==
                                 EvalEach(val.v, 2,
                                          params_to_skip_eval_for(method.val),
                                          frame, <<>>, method.st, ub)
                           IN  IF params.kind # "value" THEN params
                               ELSE call(method.val, params.val.v, frame,
                                         params.st, ub)
        [] OTHER -> Returned(st, val)

\* the loop of lines 268-272
RECURSIVE EvalAll(_, _, _, _, _)
EvalAll(parsedVals, i, lastRes0, st, ub) ==
  IF i > Len(parsedVals) THEN Returned(st, lastRes0)
  ELSE LET r == evalValue(parsedVals[i], NullFrame, st, ub)
       IN  IF r.kind # "value" THEN r
           ELSE EvalAll(parsedVals, i + 1, r.val, r.st, ub)

\* Context::eval undoing the effects of the forms evaluated when one throws
Context_eval_restoring(strs, st, ub) ==
  LET read == Context_parse(strs, ub)
  IN  IF read.kind = "ParseError" THEN Thrown(st, read.msg)
      ELSE IF read.kind = "Crash" THEN Crashed(st)
      ELSE IF EvalAll(read.vals, 1, Nil, st, ub).kind = "throw"
           THEN Thrown(st, EvalAll(read.vals, 1, Nil, st, ub).msg)
      ELSE EvalAll(read.vals, 1, Nil, st, ub)

\* Context::eval on the token strings of its argument
Context_eval(strs, st, ub) ==
  LET read == Context_parse(strs, ub)
  IN  IF read.kind = "ParseError" THEN Thrown(st, read.msg)
      ELSE IF read.kind = "Crash" THEN Crashed(st)
      ELSE EvalAll(read.vals, 1, Nil, st, ub)

\* Context::pull_buffer
pull_buffer(st) == [res |-> st.buf, st |-> [st EXCEPT !.buf = <<>>]]

\* Context::buffer
buffer(st) == st.buf

\* ---------------------------------------------------------------------
\* A Context and the calls made on it
\* ---------------------------------------------------------------------
MaxEvals == 2

LP == <<"(">>
RP == <<")">>
LB == <<"[">>
RB == <<"]">>

T_def == NATIVE \o <<".">> \o N_def
T_add == NATIVE \o <<".">> \o N_add
T_buf == NATIVE \o <<".">> \o N_buf
T_str == NATIVE \o <<".">> \o N_str

T_coreA == CORE \o <<".", "a">>

DefTargets == { <<"a">>, <<"b", ".", "a">>, T_coreA, T_add }
DefValues  == { <<"1">>, <<"5">> }

\* the texts handed to Context::eval, as token strings
DefProgram(target, val) == <<LP, T_def, target, val, RP>>

P_AddA      == <<LP, T_add, <<"a">>, <<"2">>, RP>>
P_LetAdd    ==
  <<LP, LetName, LB, <<"a">>, <<"2">>, RB, LP, T_add, <<"a">>, <<"1">>, RP, RP>>
P_BufStr    == <<LP, T_buf, LP, T_str, <<DQUOTE, "s", DQUOTE>>, <<"a">>, RP, RP>>
P_QualifiedA == <<<<"b", ".", "a">>>>
\* (__native__.def a   -- the closing parenthesis is missing
P_Unclosed  == <<LP, T_def, <<"a">>>>

\* (let [a 2] (let [b 3] (__native__.add a b)))
P_NestedLet ==
  <<LP, LetName, LB, <<"a">>, <<"2">>, RB,
      LP, LetName, LB, <<"b">>, <<"3">>, RB,
        LP, T_add, <<"a">>, <<"b">>, RP, RP, RP>>

P_BareA == <<<<"a">>>>

\* (let [a 2] b.a)
P_LetQualified == <<LP, LetName, LB, <<"a">>, <<"2">>, RB, <<"b", ".", "a">>, RP>>

\* (__native__.def a 5) (__native__.add a 2)
P_DefThenAdd == DefProgram(<<"a">>, <<"5">>) \o P_AddA

\* (__native__.def a 1) (__native__.def a 5) a
P_DefTwice ==
  DefProgram(<<"a">>, <<"1">>) \o DefProgram(<<"a">>, <<"5">>) \o P_BareA

\* (__native__.buf "h" 7) (__native__.buf :k)
P_BufTwo ==
  <<LP, T_buf, <<DQUOTE, "h", DQUOTE>>, <<"7">>, RP, LP, T_buf, <<":", "k">>, RP>>

\* (__native__.buf "x" nil)
P_BufNil == <<LP, T_buf, <<DQUOTE, "x", DQUOTE>>, <<"n", "i", "l">>, RP>>

\* (let [a 2 b (__native__.add a 1)] a b)
P_LetSeq ==
  <<LP, LetName, LB, <<"a">>, <<"2">>, <<"b">>, LP, T_add, <<"a">>, <<"1">>, RP,
    RB, <<"a">>, <<"b">>, RP>>

\* (let [1 2] 1)
P_LetBadKey == <<LP, LetName, LB, <<"1">>, <<"2">>, RB, <<"1">>, RP>>

\* (let [a 2] a) a
P_LetThenA == <<LP, LetName, LB, <<"a">>, <<"2">>, RB, <<"a">>, RP, <<"a">>>>

\* (__native__.buf "c")
BufForm(c) == <<LP, T_buf, <<DQUOTE, c, DQUOTE>>, RP>>

\* (let (__native__.buf "x"))
P_LetList == <<LP, LetName>> \o BufForm("x") \o <<RP>>

LetPrograms ==
  { P_LetAdd, P_NestedLet, P_LetQualified, P_LetSeq, P_LetBadKey, P_LetThenA,
    P_LetList }

\* (__native__.def a (__native__.buf "x") (__native__.buf "y"))
P_DefSkip == <<LP, T_def, <<"a">>>> \o BufForm("x") \o BufForm("y") \o <<RP>>

\* (__native__.def (__native__.buf "x") 1)
P_DefFirst == <<LP, T_def>> \o BufForm("x") \o <<<<"1">>, RP>>

\* (__native__.def a (true 5))
P_DefEvaluated ==
  <<LP, T_def, <<"a">>, LP, <<"t", "r", "u", "e">>, <<"5">>, RP, RP>>

\* (__native__.str (__native__.buf "x") (__native__.buf "y"))
P_StrBufs == <<LP, T_str>> \o BufForm("x") \o BufForm("y") \o <<RP>>

SkipPrograms == { P_DefSkip, P_DefFirst, P_DefEvaluated, P_StrBufs }

Programs ==
  { DefProgram(target, val) : target \in DefTargets, val \in DefValues }
    \cup
  { P_AddA, P_BufStr, P_QualifiedA, P_Unclosed, P_BareA, P_DefThenAdd,
    P_DefTwice, P_BufTwo, P_BufNil }
    \cup LetPrograms \cup SkipPrograms

SymA == Symbol(nullopt, <<"a">>)
SymB == Symbol(nullopt, <<"b">>)

\* the frame a `let` with the bindings argVec has built when it returns
LetFrameOf(argVec) ==
  LetBind(argVec, 1, make_frame(NullFrame),
          CtxState(InitialSymbols, <<>>), "benign").frame

\* Func values the host has built around the frame of a returned `let`
HostFuncs ==
  { Func(args, nullopt, statements, LetFrameOf(<<SymA, Number(n)>>)) :
      args \in {<<>>, <<SymB>>},
      statements \in { <<SymA>>, <<SymB, SymA>> },
      n \in {4, 12} }

\* Macro values the host holds
HostMacros == { Macro(<<>>, nullopt, <<SymA>>) }

\* NativeFuncs the host has registered under names of its own, each
\* running native_str
HostNatives ==
  { NativeFunc(name, "str") :
      name \in { <<"_", "2", "s">>, <<"_", "_", "s">>, <<"_", "s">> } }

HostCallables == HostFuncs \cup HostMacros \cup HostNatives

\* the form (__native__.buf "c")
BufCall(c) == List(<<Symbol(Some(NATIVE), N_buf), String(<<c>>)>>)

BufForms == <<BufCall("x"), BufCall("y"), BufCall("z")>>

HostParams == { <<>>, <<Number(7)>>, BufForms }

InitCtx ==
  /\ symbols = InitialSymbols
  /\ buf = <<>>
  /\ lastRes = NoResult
  /\ evals = 0
  /\ MmlIdle
  /\ SexprIdle

\* the calls on a Context end when the process has died
CtxAlive == evals < MaxEvals /\ lastRes.kind # "crash"

Outcome(op, r) ==
  CASE r.kind = "value" -> [op |-> op, kind |-> "value", val |-> r.val]
    [] r.kind = "throw" -> [op |-> op, kind |-> "throw", msg |-> r.msg]
    [] r.kind = "crash" -> [op |-> op, kind |-> "crash"]

\* the host calls Context::eval(src) with one of the texts of P
EvalOf(P) ==
  /\ CtxAlive
  /\ \E src \in P, ub \in UBOutcomes :
       LET r == Context_eval(src, CtxState(symbols, buf), ub)
       IN  /\ symbols' = r.st.symbols
           /\ buf' = r.st.buf
           /\ lastRes' = Outcome([name |-> "eval", src |-> src], r)
  /\ evals' = evals + 1
  /\ UNCHANGED <<mmlVars, sexprVars>>

Eval == EvalOf(Programs)

\* the host evaluates the call form (func params...) of a callable it
\* holds, one of F, with one of the parameter lists of Ps
CallOf(F, Ps) ==
  /\ CtxAlive
  /\ \E func \in F, params \in Ps, ub \in UBOutcomes :
       LET r == evalValue(List(<<func>> \o params), NullFrame,
                          CtxState(symbols, buf), ub)
       IN  /\ symbols' = r.st.symbols
           /\ buf' = r.st.buf
           /\ lastRes' = Outcome([name |-> "call", func |-> func,
                                  params |-> params], r)
  /\ evals' = evals + 1
  /\ UNCHANGED <<mmlVars, sexprVars>>

CallFunc == CallOf(HostCallables, HostParams)

\* the host calls Context::pull_buffer()
PullBuffer ==
  /\ CtxAlive
  /\ LET r == pull_buffer(CtxState(symbols, buf))
     IN  /\ buf' = r.st.buf
         /\ lastRes' = [op |-> [name |-> "pull_buffer"], kind |-> "value",
                        val |-> String(r.res)]
  /\ evals' = evals + 1
  /\ UNCHANGED <<symbols, mmlVars, sexprVars>>

\* the host calls Context::buffer()
Buffer ==
  /\ CtxAlive
  /\ lastRes' = [op |-> [name |-> "buffer"], kind |-> "value",
                 val |-> String(buffer(CtxState(symbols, buf)))]
  /\ evals' = evals + 1
  /\ UNCHANGED <<symbols, buf, mmlVars, sexprVars>>

NextCtx == Eval \/ CallFunc \/ PullBuffer \/ Buffer

SpecCtx == InitCtx /\ [][NextCtx]_vars

\* ---------------------------------------------------------------------
\* Forms evaluated one by one on a Context without definitions
\* ---------------------------------------------------------------------
T_sub    == NATIVE \o <<".">> \o N_sub
T_mul    == NATIVE \o <<".">> \o N_mul
T_div    == NATIVE \o <<".">> \o N_div
T_invert == NATIVE \o <<".">> \o N_invert_sign

T_true  == <<"t", "r", "u", "e">>
T_false == <<"f", "a", "l", "s", "e">>
T_nil   == <<"n", "i", "l">>

\* (head args...)
Form(head, args) == <<LP, head>> \o args \o <<RP>>

BoolHeads == { T_true, T_false }
BoolArgs  == { <<>>, <<<<"1">>>>, <<<<"1">>, <<"5">>>>, <<<<"1">>, <<"5">>, <<"7">>>> }

BoolPrograms == { Form(head, args) : head \in BoolHeads, args \in BoolArgs }

\* a symbol that nothing binds, bare, qualified and as an argument
UnknownSymbolPrograms == { P_BareA, P_QualifiedA, P_AddA }

\* a `def` whose first argument is not a Symbol or that has not two
\* arguments
BadDefPrograms ==
  { Form(T_def, <<<<"1">>, <<"2">>>>), P_DefFirst,
    Form(T_def, <<>>), Form(T_def, <<<<"a">>>>),
    Form(T_def, <<<<"a">>, <<"1">>, <<"5">>>>) }

\* heads that evaluate to a Number, a String, an Atom, Nil, a Vector, a
\* Map and (the empty list) Nil
BadHeads ==
  { <<<<"1">>>>, <<<<DQUOTE, "s", DQUOTE>>>>, <<<<":", "k">>>>, <<T_nil>>,
    <<LB, RB>>, <<<<"{">>, <<"}">>>>, <<LP, RP>> }

BadHeadPrograms == { <<LP>> \o head \o <<<<"1">>, RP>> : head \in BadHeads }

ArithmeticNames == { T_add, T_sub, T_mul, T_div }

\* arguments that are neither Number nor Bool, alone and after a Number
BadNumbers == { <<DQUOTE, "s", DQUOTE>>, <<":", "k">>, T_add }

BadArithmeticPrograms ==
  { Form(op, <<>>) : op \in ArithmeticNames \cup {T_invert} }
    \cup { Form(op, <<bad>>) : op \in ArithmeticNames \cup {T_invert},
                               bad \in BadNumbers }
    \cup { Form(op, <<<<"1">>, bad>>) : op \in ArithmeticNames,
                                       bad \in BadNumbers }

\* the same with Nil for the argument
NilArithmeticPrograms ==
  { Form(op, <<T_nil>>) : op \in ArithmeticNames \cup {T_invert} }
    \cup { Form(op, <<<<"1">>, T_nil>>) : op \in ArithmeticNames }

ErrorPrograms ==
  UnknownSymbolPrograms \cup BadDefPrograms \cup BadHeadPrograms
    \cup BadArithmeticPrograms \cup NilArithmeticPrograms

FormPrograms == BoolPrograms \cup ErrorPrograms

EvalForm == EvalOf(FormPrograms)

NextForms == EvalForm \/ CallFunc

SpecForms == InitCtx /\ [][NextForms]_vars

\* ---------------------------------------------------------------------
\* Funcs called by the host, their bodies made of their own parameters
\* and of writes to the buffer
\* ---------------------------------------------------------------------
SymC    == Symbol(nullopt, <<"c">>)
SymRest == Symbol(nullopt, <<"r">>)

BodyForms == { SymB, SymC, SymRest, BufCall("x"), BufCall("y") }

MaxBody == 2

\* the symbols a Func binds when it is called
BoundBy(args, varArgs) ==
  { args[i] : i \in 1..Len(args) }
    \cup (IF varArgs.has_value THEN {varArgs.value} ELSE {})

\* the bodies whose symbols are all parameters of the Func
BodiesOf(args, varArgs) ==
  { b \in SeqsUpTo(BodyForms, MaxBody) \ {<<>>} :
      \A i \in 1..Len(b) :
        b[i].t = "sym" => b[i] \in BoundBy(args, varArgs) }

BodyFuncs ==
  UNION { { Func(args, varArgs, statements, NullFrame) :
              statements \in BodiesOf(args, varArgs) } :
          args \in { <<>>, <<SymB>>, <<SymB, SymC>> },
          varArgs \in { nullopt, Some(SymRest) } }

BodyParams ==
  { <<>>, <<Number(7)>>, <<Number(7), String(<<"s">>)>>,
    <<Number(7), String(<<"s">>), Atom(<<"k">>)>> }

CallBody == CallOf(BodyFuncs, BodyParams)

NextCall == CallBody

SpecCall == InitCtx /\ [][NextCall]_vars

\* ---------------------------------------------------------------------
\* Vector and Map literals evaluated after (__native__.def a 5)
\* ---------------------------------------------------------------------
MaxElems == 2

E_one == <<<<"1">>>>
E_add == <<LP, T_add, <<"1">>, <<"2">>, RP>>

\* the elements written into the literals: 1, a, (__native__.add 1 2) and
\* (__native__.buf "x")
LiteralElems == { E_one, P_BareA, E_add, BufForm("x") }

RECURSIVE ConcatAll(_)
ConcatAll(seqs) ==
  IF seqs = <<>> THEN <<>> ELSE seqs[1] \o ConcatAll(Tail(seqs))

\* (__native__.def a 5) [elems...]
VectorProgram(elems) ==
  DefProgram(<<"a">>, <<"5">>) \o <<LB>> \o ConcatAll(elems) \o <<RB>>

\* (__native__.def a 5) {key value}
MapProgram(key, value) ==
  DefProgram(<<"a">>, <<"5">>) \o <<<<"{">>>> \o key \o value \o <<<<"}">>>>

\* (__native__.def a 5) {}
P_EmptyMap == DefProgram(<<"a">>, <<"5">>) \o <<<<"{">>, <<"}">>>>

CollectionPrograms ==
  { VectorProgram(elems) : elems \in SeqsUpTo(LiteralElems, MaxElems) }
    \cup { MapProgram(key, value) : key, value \in LiteralElems }
    \cup { P_EmptyMap }

EvalCollection == EvalOf(CollectionPrograms)

NextColl == EvalCollection

SpecColl == InitCtx /\ [][NextColl]_vars

\* ---------------------------------------------------------------------
\* Arithmetic forms, each evaluated on a Context of its own
\* ---------------------------------------------------------------------
MaxArgs == 3

\* Numbers and Bools as they are written
ArithArgs ==
  { <<"1">>, <<"2">>, <<"3">>, <<"-", "4">>, <<"1", "2">>, T_true, T_false }

ArithPrograms ==
  { Form(op, args) : op \in ArithmeticNames,
                     args \in SeqsUpTo(ArithArgs, MaxArgs) \ {<<>>} }

InitArith ==
  /\ tokens \in ArithPrograms
  /\ parseRes = NoResult
  /\ symbols = InitialSymbols
  /\ buf = <<>>
  /\ lastRes = NoResult
  /\ evals = 0
  /\ MmlIdle

\* the host calls Context::eval with the text `tokens`
EvalText ==
  /\ evals = 0
  /\ \E ub \in UBOutcomes :
       LET r == Context_eval(tokens, CtxState(symbols, buf), ub)
       IN  /\ symbols' = r.st.symbols
           /\ buf' = r.st.buf
           /\ lastRes' = Outcome([name |-> "eval", src |-> tokens], r)
  /\ evals' = evals + 1
  /\ UNCHANGED <<tokens, parseRes, mmlVars>>

NextArith == EvalText

SpecArith == InitArith /\ [][NextArith]_vars

\* ---------------------------------------------------------------------
\* One argument list handed to `str` and then to `buf`
\* ---------------------------------------------------------------------
\* the arguments as they are written: 7, "s", :k, nil, true and [1 2]
RenderedArgs ==
  { <<<<"7">>>>, <<<<DQUOTE, "s", DQUOTE>>>>, <<<<":", "k">>>>, <<T_nil>>,
    <<T_true>>, <<LB, <<"1">>, <<"2">>, RB>> }

ArgumentLists ==
  { ConcatAll(args) : args \in SeqsUpTo(RenderedArgs, MaxArgs) }

InitRender ==
  /\ tokens \in ArgumentLists
  /\ parseRes = NoResult
  /\ symbols = InitialSymbols
  /\ buf = <<>>
  /\ lastRes = NoResult
  /\ evals = 0
  /\ MmlIdle

\* the host calls Context::eval on (head tokens...)
EvalHead(head) ==
  /\ \E ub \in UBOutcomes :
       LET r == Context_eval(Form(head, tokens), CtxState(symbols, buf), ub)
       IN  /\ symbols' = r.st.symbols
           /\ buf' = r.st.buf
           /\ lastRes' = Outcome([name |-> "eval",
                                  src |-> Form(head, tokens)], r)
  /\ evals' = evals + 1
  /\ UNCHANGED <<tokens, parseRes, mmlVars>>

StrArgs == evals = 0 /\ EvalHead(T_str)

BufArgs == evals = 1 /\ lastRes.kind # "crash" /\ EvalHead(T_buf)

NextRender == StrArgs \/ BufArgs

SpecRender == InitRender /\ [][NextRender]_vars

\* ---------------------------------------------------------------------
\* Literals read by Context::parse and printed by operator<<
\* ---------------------------------------------------------------------
MaxDigits == 7
MaxFraction == 2
MaxName == 3
MaxChars == 2

SeqsFromTo(S, lo, hi) == UNION { [1..n -> S] : n \in lo..hi }

NumeralDigits == {"0", "1", "5"}
Signs == { <<>>, <<"-">>, <<"+">> }

\* a numeral that reads as a zero with a minus sign is left out: the sign
\* of a zero is not modelled
MinusZero(x) == x[1] = "-" /\ \A i \in 2..Len(x) : x[i] \in {"0", "."}

IntegerNumerals ==
  { s \o n : s \in Signs, n \in SeqsFromTo(NumeralDigits, 1, MaxDigits) }

FractionNumerals ==
  { s \o n \o <<".">> \o f :
      s \in Signs, n \in SeqsFromTo(NumeralDigits, 1, 2),
      f \in SeqsFromTo(NumeralDigits, 1, MaxFraction) }

NumberLiterals ==
  { x \in IntegerNumerals \cup FractionNumerals : ~MinusZero(x) }

BoolLiterals == { <<"t", "r", "u", "e">>, <<"f", "a", "l", "s", "e">> }

NameLiterals ==
  { <<c>> \o r : c \in {"a", "_", "*"},
                 r \in SeqsFromTo({"a", ".", "-", "1"}, 0, MaxName - 1) }

AtomLiterals == { <<":">> \o n : n \in NameLiterals }

\* strings without a backslash or a quote inside
StringLiterals ==
  { <<DQUOTE>> \o c \o <<DQUOTE>> :
      c \in SeqsFromTo({"a", " ", "(", "1", ":", "."}, 0, MaxChars) }

Literals ==
  NumberLiterals \cup BoolLiterals \cup NameLiterals \cup AtomLiterals
    \cup StringLiterals

InitPrint ==
  /\ text \in { TextOf(x) : x \in Literals }
  /\ doc = NoResult
  /\ pairs = <<>>
  /\ SexprIdle
  /\ CtxIdle

\* the host calls Context::parse with the text
ParseText ==
  /\ parseRes = NoResult
  /\ tokens' = tokenize(text.str, 1, <<>>)
  /\ \E ub \in UBOutcomes : parseRes' = Context_parse_text(text.str, ub)
  /\ UNCHANGED <<mmlVars, ctxVars>>

\* the host writes each value read to a stream of its own
PrintValues ==
  /\ parseRes.kind = "ParseResult"
  /\ lastRes = NoResult
  /\ lastRes' = [op |-> [name |-> "print"],
                 kind |-> "printed",
                 strs |-> [i \in 1..Len(parseRes.vals) |->
                             to_string(parseRes.vals[i])]]
  /\ UNCHANGED <<mmlVars, sexprVars, symbols, buf, evals>>

NextPrint == ParseText \/ PrintValues

SpecPrint == InitPrint /\ [][NextPrint]_vars

\* ---------------------------------------------------------------------
\* BLOCK tags ~a whose body lines are plain content or a nested tag
\* ---------------------------------------------------------------------
MaxLines == 2

\* the nested tags written on a body line: an EOL tag, a BRACE tag, a
\* BLOCK tag and a BLOCK tag with the name of the enclosing one
NestedTags ==
  { [type |-> "EOL",   txt |-> <<"~", "b", "~">>],
    [type |-> "BRACE", txt |-> <<"~", "b", "{", "1", "}">>],
    [type |-> "BLOCK", txt |-> <<"~", "b", "\n", "1", "\n", "~", "b", "~">>],
    [type |-> "BLOCK", txt |-> <<"~", "a", "\n", "1", "\n", "~", "a", "~">>] }

PlainLine == [tag |-> FALSE, pre |-> <<>>, txt |-> <<"1">>]

BodyLines ==
  { PlainLine }
    \cup { [tag |-> TRUE, pre |-> pre, txt |-> n.txt, type |-> n.type] :
             pre \in { <<>>, <<" ">> }, n \in NestedTags }

\* ~a, the lines, and the terminator ~a~ on a line of its own
NestedText(lines) ==
  <<"~", "a", "\n">>
    \o Join([i \in 1..Len(lines) |-> lines[i].pre \o lines[i].txt], <<"\n">>)
    \o <<"\n", "~", "a", "~">>

LineSeqs == SeqsUpTo(BodyLines, MaxLines) \ {<<>>}

InitNested ==
  /\ text \in { TextOf(NestedText(lines)) : lines \in LineSeqs }
  /\ doc = NoResult
  /\ pairs = <<>>
  /\ SexprIdle
  /\ CtxIdle

NextNested == ParseMml

SpecNested == InitNested /\ [][NextNested]_vars

\* ---------------------------------------------------------------------
\* Programs of several top-level forms, some of which raise an error
\* ---------------------------------------------------------------------
MaxForms == 3

DefStep(name, tok, n) ==
  [kind |-> "def", toks |-> DefProgram(name, tok), name |-> name,
   val |-> Number(n)]
BufStep(c)  == [kind |-> "buf", toks |-> BufForm(c), text |-> <<c>>]
ErrStep(ts) == [kind |-> "err", toks |-> ts]

\* (__native__.def a 1), (__native__.def b 5), (__native__.buf "x") and
\* two forms that raise an error: (__native__.def a), which lacks an
\* argument, and the unbound symbol z
StepForms ==
  { DefStep(<<"a">>, <<"1">>, 1), DefStep(<<"b">>, <<"5">>, 5), BufStep("x"),
    ErrStep(<<LP, T_def, <<"a">>, RP>>), ErrStep(<<<<"z">>>>) }

FormSeqs == SeqsUpTo(StepForms, MaxForms) \ {<<>>}

\* the text of a program, as token strings
SourceOf(forms) == ConcatAll([i \in 1..Len(forms) |-> forms[i].toks])

SequencePrograms == { SourceOf(forms) : forms \in FormSeqs }

\* a, b and (__native__.buf "z"), evaluated by a later call
ProbePrograms == { P_BareA, <<<<"b">>>>, BufForm("z") }

\* the first eval call on the Context
EvalSequence == evals = 0 /\ EvalOf(SequencePrograms)

\* a second eval call, after the first has returned or thrown
EvalProbe == evals = 1 /\ EvalOf(ProbePrograms)

NextSeq == EvalSequence \/ EvalProbe

SpecSeq == InitCtx /\ [][NextSeq]_vars

\* ---------------------------------------------------------------------
\* Texts that make the loops of the MML parser run
\* ---------------------------------------------------------------------
MaxPieces == 3

\* tag openers and closers, braces, an escape, line breaks, whitespace and
\* plain content
ScanFrags ==
  { <<"~", "a">>, <<"~">>, <<"\n">>, <<"1">>, <<"{">>, <<"}">>, <<" ">>,
    <<"\\">>, <<"~", "a", "\n">>, <<"\n", "~", "a", "~">> }

InitScan ==
  /\ text \in {TextOf(s) : s \in Concats(ScanFrags, MaxPieces)} \cup {NullText}
  /\ doc = NoResult
  /\ pairs = <<>>
  /\ SexprIdle
  /\ CtxIdle

NextScan == ParseMml

SpecScan == InitScan /\ [][NextScan]_vars

\* the loop of find_after_newline_ws resumes at the line break itself
SameLine(newlineItr) == newlineItr

\* line 114: the loop of find_after_newline_ws resumes after the line break
NextLine(newlineItr) == newlineItr + 1

\* the test of line 110 that ends find_after_newline_ws
FoundAfterNewline(t, newlineItr, lookIter, end) ==
  /\ lookIter # end
  /\ \A p \in newlineItr..(lookIter - 1) : is_whitespace(t[p])

\* the values of curPos in the successive iterations of the loop of
\* find_after_newline_ws (lines 104-115), at most `fuel` + 1 of them
RECURSIVE newline_ws_positions(_, _, _, _, _)
newline_ws_positions(t, curPos, end, look, fuel) ==
  IF curPos = end \/ fuel = 0 THEN <<curPos>>
  ELSE IF Find(t, curPos, end, NL) = end THEN <<curPos>>
  ELSE IF FoundAfterNewline(t, Find(t, curPos, end, NL),
                            Find(t, Find(t, curPos, end, NL), end, look), end)
       THEN <<curPos>>
  ELSE <<curPos>> \o newline_ws_positions(t, NextLine(Find(t, curPos, end, NL)),
                                          end, look, fuel - 1)

\* line 72: the `pair`s counted when the loop of find_not_escaped_stack has
\* found `look` at nextEnd
CountAt(t, curPos, nextEnd, pair, count) ==
  count_pairs(t, find_not_escaped(t, curPos, nextEnd, pair, BACKSLASH),
              nextEnd, pair, count)

\* the values of curPos in the successive iterations of the loop of
\* find_not_escaped_stack (lines 65-79), at most `fuel` + 1 of them
RECURSIVE stack_positions(_, _, _, _, _, _, _)
stack_positions(t, curPos, end, look, pair, count, fuel) ==
  IF curPos = end \/ fuel = 0 THEN <<curPos>>
  ELSE IF find_not_escaped(t, curPos, end, look, BACKSLASH) = end
       THEN <<curPos>>
  ELSE IF CountAt(t, curPos, find_not_escaped(t, curPos, end, look, BACKSLASH),
                  pair, count) <= 1
       THEN <<curPos>>
  ELSE <<curPos>> \o
       stack_positions(t,
         find_not_escaped(t, curPos, end, look, BACKSLASH) + 1, end, look, pair,
         CountAt(t, curPos, find_not_escaped(t, curPos, end, look, BACKSLASH),
                 pair, count) - 1,
         fuel - 1)

\* ---------------------------------------------------------------------
\* Strings scanned by find_not_escaped and find_not_escaped_stack
\* ---------------------------------------------------------------------
MaxStr == 4

BAR == "|"

\* the characters of a scanned string: the delimiters, the default escape
\* and a character a caller may pass as escape
StrChars == {"{", "}", BACKSLASH, BAR}

\* the default value of the parameter `escape` and a caller-supplied one
Escapes == {BACKSLASH, BAR}

InitStr ==
  /\ text \in {TextOf(s) : s \in SeqsUpTo(StrChars, MaxStr)}
  /\ doc = NoResult
  /\ pairs = <<>>
  /\ SexprIdle
  /\ CtxIdle

\* a caller scans [start, end) of `text` for `}` with find_not_escaped
FindNotEscaped ==
  /\ doc = NoResult
  /\ \E start \in 1..(Len(text.str) + 1), escape \in Escapes :
       \E end \in start..(Len(text.str) + 1) :
         doc' = [kind |-> "position", fn |-> "find_not_escaped",
                 start |-> start, end |-> end, look |-> "}",
                 escape |-> escape,
                 pos |-> find_not_escaped(text.str, start, end, "}", escape)]
  /\ UNCHANGED <<text, pairs, sexprVars, ctxVars>>

\* a caller scans [start, end) of `text` for the `}` of a `{` with
\* find_not_escaped_stack
FindNotEscapedStack ==
  /\ doc = NoResult
  /\ \E start \in 1..(Len(text.str) + 1), escape \in Escapes :
       \E end \in start..(Len(text.str) + 1) :
         doc' = [kind |-> "position", fn |-> "find_not_escaped_stack",
                 start |-> start, end |-> end, look |-> "}",
                 escape |-> escape,
                 pos |-> find_not_escaped_stack(text.str, start, end,
                                                "}", "{", escape)]
  /\ UNCHANGED <<text, pairs, sexprVars, ctxVars>>

NextStr == FindNotEscaped \/ FindNotEscapedStack

SpecStr == InitStr /\ [][NextStr]_vars

\* ---------------------------------------------------------------------
\* Value::operator<=> (eval_engine.cpp)
\* ---------------------------------------------------------------------
\* std::strong_ordering of two integers
IntCompare(x, y) ==
  IF x < y THEN "less" ELSE IF x > y THEN "greater" ELSE "equal"

\* the bytes of the characters compared
CharCode == ("a" :> 97) @@ ("b" :> 98) @@ ("k" :> 107)

\* str_utils::bin_compare
RECURSIVE bin_compare_from(_, _, _)
bin_compare_from(left, right, i) ==
  IF i > Len(left) \/ i > Len(right) THEN IntCompare(Len(left), Len(right))
  ELSE IF left[i] # right[i]
       THEN IntCompare(CharCode[left[i]], CharCode[right[i]])
  ELSE bin_compare_from(left, right, i + 1)

bin_compare(left, right) == bin_compare_from(left, right, 1)

\* the overload for two doubles: neither `<` nor `>` holds of a NaN
DoubleCompare(f, g) ==
  IF f = <<0, 0>> \/ g = <<0, 0>> THEN "equal"
  ELSE IF f[2] = 0 /\ g[2] = 0 THEN IntCompare(f[1], g[1])
  ELSE IntCompare(f[1] * g[2], g[1] * f[2])

\* std::variant::index() of the alternative a Value holds
VariantIndex(a) ==
  CASE a.t = "func"   -> 0
    [] a.t = "native" -> 1
    [] a.t = "map"    -> 2
    [] a.t = "vec"    -> 3
    [] a.t = "str"    -> 5
    [] a.t = "atom"   -> 6
    [] a.t = "sym"    -> 7
    [] a.t = "num"    -> 8
    [] a.t = "bool"   -> 9

\* what `std::visit(..., *val, *other.val)` may do when other.val is empty:
\* the dereference is undefined, the visit reads whatever the storage holds
UBCompare == {"less", "equal", "greater", "crash"}

\* Value::operator<=>; `ub` is the outcome of the undefined dereference.
\* Two Values of one alternative without an overload of its own (two
\* Funcs) fall to the generic overload and compare by index.
RECURSIVE ValueCompare(_, _, _)
RECURSIVE VectorCompare(_, _, _, _)
ValueCompare(a, b, ub) ==
  IF a = Nil THEN (IF b # Nil THEN "less" ELSE "equal")
  ELSE IF b = Nil THEN ub
  ELSE IF a.t # b.t THEN IntCompare(VariantIndex(a), VariantIndex(b))
  ELSE CASE a.t = "native" -> bin_compare(a.name, b.name)
         [] a.t = "vec"    -> VectorCompare(a.v, b.v, 1, ub)
         [] a.t = "str"    -> bin_compare(a.v, b.v)
         [] a.t = "atom"   -> bin_compare(a.token, b.token)
         [] a.t = "sym"    -> bin_compare(a.token, b.token)
         [] a.t = "num"    -> DoubleCompare(FractionOf(a), FractionOf(b))
         [] a.t = "bool"   -> IntCompare(IF a.v THEN 1 ELSE 0,
                                         IF b.v THEN 1 ELSE 0)
         [] a.t = "func"   -> IntCompare(VariantIndex(a), VariantIndex(b))

VectorCompare(left, right, i, ub) ==
  IF i > Len(left) \/ i > Len(right) THEN IntCompare(Len(left), Len(right))
  ELSE IF ValueCompare(left[i], right[i], ub) # "equal"
       THEN ValueCompare(left[i], right[i], ub)
  ELSE VectorCompare(left, right, i + 1, ub)

\* the Values compared
OrderValues ==
  { Nil, Bool(FALSE), Bool(TRUE), Number(1), Number(2), Ratio(0, 0),
    String(<<"a">>), String(<<"a", "b">>), Atom(<<"k">>),
    Symbol(nullopt, <<"b">>),
    Vector(<<>>), Vector(<<Number(1)>>), Vector(<<Number(1), Nil>>),
    Func(<<SymB>>, nullopt, <<SymB>>, NullFrame),
    Func(<<>>, nullopt, <<SymB>>, NullFrame) }

Comparisons == {"ab", "ba", "bc", "ac"}

InitOrder == MmlIdle /\ SexprIdle /\ CtxIdle

\* the host compares three Values with one another
CompareValues ==
  /\ lastRes = NoResult
  /\ \E a \in OrderValues, b \in OrderValues, c \in OrderValues :
       \E ub \in [Comparisons -> UBCompare] :
         lastRes' = [kind |-> "compared", a |-> a, b |-> b, c |-> c,
                     ab |-> ValueCompare(a, b, ub["ab"]),
                     ba |-> ValueCompare(b, a, ub["ba"]),
                     bc |-> ValueCompare(b, c, ub["bc"]),
                     ac |-> ValueCompare(a, c, ub["ac"])]
  /\ UNCHANGED <<mmlVars, sexprVars, symbols, buf, evals>>

NextOrder == CompareValues

SpecOrder == InitOrder /\ [][NextOrder]_vars

\* ---------------------------------------------------------------------
\* Frames as objects: shared_ptr<Frame> values that point at one another
\* ---------------------------------------------------------------------
MaxFrames == 5

\* the null shared_ptr<Frame>
NullPtr == 0

\* the Frame objects made so far, a pointer being an index into them;
\* `current` names the bindings map the Frame points at
Frames == symbols.heap

\* the Frames met from `ptr` by following `parent`, at most `fuel` of them
RECURSIVE ChainFrom(_, _, _)
ChainFrom(heap, ptr, fuel) ==
  IF ptr = NullPtr \/ fuel = 0 THEN <<>>
  ELSE <<ptr>> \o ChainFrom(heap, heap[ptr].parent, fuel - 1)

Chain(heap, ptr) == ChainFrom(heap, ptr, Len(heap) + 1)

\* the Frames the loop of add_root_frame makes: one for `self` (line 38)
\* and one for each layer above it (lines 40-44), each the parent of the
\* one before, the last with `frame` for parent (line 45)
CopiedLayers(heap, layers, frame) ==
  [i \in 1..Len(layers) |->
     [current |-> heap[layers[i]].current,
      parent  |-> IF i < Len(layers) THEN Len(heap) + i + 1 ELSE frame]]

\* the parent pointers of the Frames that exist are left as they are,
\* the last layer of the chain of `self` is pointed at `frame`
ReparentedLayers(heap, layers, frame) ==
  [i \in 1..Len(heap) |->
     IF i = layers[Len(layers)]
     THEN [current |-> heap[i].current, parent |-> frame]
     ELSE heap[i]]

\* the Frame objects after self->add_root_frame(frame) re-parenting the
\* chain of `self` itself
Frame_add_root_frame_in_place(heap, self, frame) ==
  ReparentedLayers(heap, Chain(heap, self), frame)
    \o CopiedLayers(heap, <<self>>, heap[self].parent)

\* the Frame objects after self->add_root_frame(frame); the Frame returned
\* is the first one added
Frame_add_root_frame(heap, self, frame) ==
  heap \o CopiedLayers(heap, Chain(heap, self), frame)

InitFrames ==
  /\ MmlIdle
  /\ SexprIdle
  /\ symbols = [kind |-> "frames", heap |-> <<>>]
  /\ buf = <<>>
  /\ lastRes = NoResult
  /\ evals = 0

\* Context::make_frame: a default-constructed Frame with bindings of its
\* own and no parent
MakeFrame ==
  /\ Len(Frames) < MaxFrames
  /\ symbols' = [symbols EXCEPT
                   !.heap = Append(@, [current |-> Len(Frames) + 1,
                                       parent  |-> NullPtr])]
  /\ lastRes' = [kind |-> "make_frame", before |-> Frames]
  /\ UNCHANGED <<mmlVars, sexprVars, buf, evals>>

\* self->add_root_frame(captured) on a Frame and a captured chain that exist
AddRootFrame ==
  \E self \in 1..Len(Frames), captured \in 0..Len(Frames) :
    /\ Len(Frames) + Len(Chain(Frames, self)) <= MaxFrames
    /\ symbols' = [symbols EXCEPT
                     !.heap = Frame_add_root_frame(Frames, self, captured)]
    /\ lastRes' = [kind |-> "add_root_frame", before |-> Frames,
                   self |-> self, captured |-> captured,
                   newFrame |-> Len(Frames) + 1]
    /\ UNCHANGED <<mmlVars, sexprVars, buf, evals>>

NextFrames == MakeFrame \/ AddRootFrame

SpecFrames == InitFrames /\ [][NextFrames]_vars

\* ---------------------------------------------------------------------
\* Reading a parsed Document
\* ---------------------------------------------------------------------
Src == text.str

IsDocument == doc.kind = "Document"

\* the source slice of an element: Content text or Tag origText
ElemView(e) == IF e.kind = "Content" THEN e.content ELSE e.origText
ElemFirst(e) == ElemView(e).ptr
ElemLimit(e) == ElemView(e).ptr + ElemView(e).len

RECURSIVE ConcatViews(_, _)
ConcatViews(t, elems) ==
  IF elems = <<>> THEN <<>>
  ELSE ViewText(t, ElemView(Head(elems))) \o ConcatViews(t, Tail(elems))

\* every Tag of a sequence of elements, at any nesting depth
RECURSIVE TagsIn(_)
TagsIn(elems) ==
  UNION { IF elems[i].kind = "Tag"
          THEN {elems[i]} \cup (IF elems[i].content.has_value
                                THEN TagsIn(elems[i].content.value) ELSE {})
          ELSE {} : i \in 1..Len(elems) }

DocTags == IF IsDocument THEN TagsIn(doc.elements) ELSE {}

Children(tag) == tag.content.value
RawFirst(tag) == tag.rawContent.value.ptr
RawLimit(tag) == tag.rawContent.value.ptr + tag.rawContent.value.len

\* the positions of rawContent that no child covers
Uncovered(tag) ==
  {p \in RawFirst(tag)..(RawLimit(tag) - 1) :
     \A i \in 1..Len(Children(tag)) :
        ~(ElemFirst(Children(tag)[i]) <= p /\ p < ElemLimit(Children(tag)[i]))}

\* a string ends with a newline followed only by whitespace
EndsNewlineWs(sv) ==
  \E k \in 1..Len(sv) :
     sv[k] = NL /\ \A j \in (k + 1)..Len(sv) : is_whitespace(sv[j])

\* C1: whenever parse returns a Document, concatenating the source slices
\* of its top-level elements in order yields exactly the input text.
C1_RoundTrip ==
  IsDocument => ConcatViews(Src, doc.elements) = Src

C1_Witness ==
  /\ IsDocument
  /\ Len(doc.elements) >= 3
  /\ \E i, j \in 1..Len(doc.elements) :
        /\ doc.elements[i].kind = "Content"
        /\ doc.elements[j].kind = "Tag" /\ doc.elements[j].type = "BLOCK"

\* C2 (as claimed): for every Tag with content, the slices of its children
\* concatenated in order equal its rawContent.
C2_TilingClaimed ==
  \A tag \in DocTags :
     tag.content.has_value =>
       ConcatViews(Src, Children(tag)) = ViewText(Src, tag.rawContent.value)

\* C2 (amended): the children of a Tag are slices of rawContent in source
\* order that never overlap.  In a BRACE tag they tile rawContent exactly.
\* In a BLOCK tag they leave out single whitespace characters and nothing
\* else: the character just before the terminator is always left out, and
\* any other character left out stands just before a child Tag.
C2_Tiling ==
  \A tag \in DocTags :
     tag.content.has_value =>
       /\ \A i \in 1..Len(Children(tag)) :
             /\ RawFirst(tag) <= ElemFirst(Children(tag)[i])
             /\ ElemLimit(Children(tag)[i]) <= RawLimit(tag)
             /\ i > 1 => ElemLimit(Children(tag)[i - 1]) <= ElemFirst(Children(tag)[i])
       /\ tag.type = "BRACE" =>
             ConcatViews(Src, Children(tag)) = ViewText(Src, tag.rawContent.value)
       /\ tag.type = "BLOCK" =>
             /\ RawLimit(tag) - 1 \in Uncovered(tag)
             /\ \A p \in Uncovered(tag) :
                   /\ is_whitespace(Src[p])
                   /\ \/ p + 1 = RawLimit(tag)
                      \/ \E i \in 1..Len(Children(tag)) :
                            /\ Children(tag)[i].kind = "Tag"
                            /\ ElemFirst(Children(tag)[i]) = p + 1

C2_Witness ==
  \E tag \in DocTags :
     /\ tag.type = "BLOCK"
     /\ Len(Children(tag)) >= 2
     /\ Cardinality(Uncovered(tag)) >= 2
     /\ \E i \in 1..Len(Children(tag)) :
           /\ Children(tag)[i].kind = "Tag"
           /\ Children(tag)[i].type = "BRACE"
           /\ Children(tag)[i].content.has_value
           /\ Len(Children(tag)[i].content.value) >= 1

\* C4: whenever parse returns a Document, every Tag in it has a non-empty
\* name made only of characters [A-Za-z_].
C4_TagNames ==
  \A tag \in DocTags :
     /\ tag.tagName.len >= 1
     /\ \A p \in tag.tagName.ptr..(tag.tagName.ptr + tag.tagName.len - 1) :
           is_tag_name_char(Src[p])

\* C5: no Document is returned that contains a BRACE tag whose interior was
\* not parsed into content.
C5_BraceInterior ==
  \A tag \in DocTags : tag.type = "BRACE" => tag.content.has_value

\* C6: at document top level a BLOCK tag is the first element or follows an
\* element whose source ends with a newline followed only by whitespace.
C6_BlockOwnLine ==
  IsDocument =>
    \A i \in 1..Len(doc.elements) :
       (doc.elements[i].kind = "Tag" /\ doc.elements[i].type = "BLOCK") =>
          \/ i = 1
          \/ EndsNewlineWs(ViewText(Src, ElemView(doc.elements[i - 1])))

C6_Witness ==
  /\ IsDocument
  /\ \E i \in 2..Len(doc.elements) :
        /\ doc.elements[i].kind = "Tag" /\ doc.elements[i].type = "BLOCK"
        /\ doc.elements[i - 1].kind = "Content"

\* ---------------------------------------------------------------------
\* BLOCK terminators
\* ---------------------------------------------------------------------
\* the closing name the claim prescribes for a BLOCK tag
DelimOf(tag) ==
  IF DelimKey \in DOMAIN tag.props
  THEN ViewText(Src, tag.props[DelimKey][1])
  ELSE ViewText(Src, tag.tagName)

TerminatorOf(tag) == <<TILDE>> \o DelimOf(tag) \o <<TILDE>>

\* `term` stands at p and only whitespace follows it up to the next newline
\* or the end of the input
TerminatorAt(p, term) ==
  LET after == p + Len(term)
  IN  /\ after - 1 <= Len(Src)
      /\ SubSeq(Src, p, after - 1) = term
      /\ \A q \in after..Len(Src) :
            (\A r \in after..q : Src[r] # NL) => is_whitespace(Src[q])

\* only whitespace lies between p and a newline at or after `floor`
LineLeading(p, floor) ==
  \E n \in floor..(p - 1) :
     /\ Src[n] = NL
     /\ \A q \in (n + 1)..(p - 1) : is_whitespace(Src[q])

BlockTags == {tag \in DocTags : tag.type = "BLOCK"}

\* the tag ends with its terminator, which stands on a line of its own
EndsAtTerminator(tag) ==
  /\ ElemLimit(tag) = RawLimit(tag) + Len(TerminatorOf(tag))
  /\ TerminatorAt(RawLimit(tag), TerminatorOf(tag))
  /\ LineLeading(RawLimit(tag), RawFirst(tag))

\* p lies inside a child Tag of tag
InsideChildTag(tag, p) ==
  \E i \in 1..Len(Children(tag)) :
     /\ Children(tag)[i].kind = "Tag"
     /\ ElemFirst(Children(tag)[i]) < p
     /\ p < ElemLimit(Children(tag)[i])

\* C3 (as claimed): a BLOCK tag ends with `~<delim>~` on a line of its own,
\* and no earlier line of its body, the first one included, is such a line.
C3_TerminatorClaimed ==
  \A tag \in BlockTags :
     /\ EndsAtTerminator(tag)
     /\ \A p \in RawFirst(tag)..(RawLimit(tag) - 1) :
           ~(LineLeading(p, RawFirst(tag) - 1) /\ TerminatorAt(p, TerminatorOf(tag)))

\* C3 (amended): a BLOCK tag ends with `~<delim>~` (the first value of its
\* `delim` prop, else its name) on a line that follows the first line of
\* the body, with only whitespace around it; every earlier such line after
\* the first body line lies inside a nested tag of the body.
C3_Terminator ==
  \A tag \in BlockTags :
     /\ EndsAtTerminator(tag)
     /\ \A p \in RawFirst(tag)..(RawLimit(tag) - 1) :
           (LineLeading(p, RawFirst(tag)) /\ TerminatorAt(p, TerminatorOf(tag)))
              => InsideChildTag(tag, p)

\* a BLOCK tag closed by its `delim` prop whose body holds a line `~name~`
C3_Witness ==
  \E tag \in BlockTags :
     /\ DelimKey \in DOMAIN tag.props
     /\ DelimOf(tag) # ViewText(Src, tag.tagName)
     /\ \E i \in 1..Len(Children(tag)) :
           /\ Children(tag)[i].kind = "Tag"
           /\ ViewText(Src, Children(tag)[i].origText)
                = <<TILDE>> \o ViewText(Src, tag.tagName) \o <<TILDE>>
           /\ LineLeading(ElemFirst(Children(tag)[i]), RawFirst(tag))

\* a terminator-shaped line that a nested tag of the body has consumed
C3_NestedTerminatorReached ==
  \E tag \in BlockTags :
     \E p \in RawFirst(tag)..(RawLimit(tag) - 1) :
        LineLeading(p, RawFirst(tag)) /\ TerminatorAt(p, TerminatorOf(tag))

\* ---------------------------------------------------------------------
\* Props
\* ---------------------------------------------------------------------
ValuesOf(ps, k) ==
  LET sel == SelectSeq(ps, LAMBDA p : p.key = k)
  IN  [i \in 1..Len(sel) |-> sel[i].val.value]

\* C7: props[key] holds the values of all occurrences of key in the order
\* in which the source writes them, whatever lies between them.
C7_PropsOrder ==
  doc # NoResult =>
    /\ IsDocument
    /\ Len(doc.elements) = 1
    /\ doc.elements[1].kind = "Tag"
    /\ LET props == doc.elements[1].props
       IN  /\ DOMAIN props = {pairs[i].key : i \in 1..Len(pairs)}
           /\ \A k \in DOMAIN props :
                 [i \in 1..Len(props[k]) |-> ViewText(Src, props[k][i])]
                   = ValuesOf(pairs, k)

\* a key written twice with another key between the two occurrences
C7_Witness ==
  /\ IsDocument
  /\ \E i, j, m \in 1..Len(pairs) :
        /\ i < j /\ j < m
        /\ pairs[i].key = pairs[m].key
        /\ pairs[j].key # pairs[i].key
        /\ pairs[i].val # pairs[m].val
  /\ \E k \in DOMAIN doc.elements[1].props : Len(doc.elements[1].props[k]) >= 2

\* ---------------------------------------------------------------------
\* Bracket pairing
\* ---------------------------------------------------------------------
Openers == { <<"(">>, <<"[">>, <<"{">> }
Closers == { <<")">>, <<"]">>, <<"}">> }

CloserOf(s) ==
  CASE s = <<"(">> -> <<")">> [] s = <<"[">> -> <<"]">> [] s = <<"{">> -> <<"}">>

\* the brackets still open after strs[i..], or <<<<"bad">>>> when a closing token
\* closes nothing or closes a bracket of another kind
RECURSIVE OpenAfter(_, _, _)
OpenAfter(strs, i, open) ==
  IF i > Len(strs) THEN open
  ELSE IF strs[i] \in Openers THEN OpenAfter(strs, i + 1, <<strs[i]>> \o open)
  ELSE IF strs[i] \in Closers
  THEN IF open = <<>> \/ CloserOf(Head(open)) # strs[i] THEN <<<<"bad">>>>
       ELSE OpenAfter(strs, i + 1, Tail(open))
  ELSE OpenAfter(strs, i + 1, open)

UnclosedOpener == OpenAfter(tokens, 1, <<>>) \notin {<<<<"bad">>>>, <<>>}

\* C8: an opening token still unclosed at the end of the input yields a
\* ParseError.
C8_UnclosedOpener ==
  (parseRes # NoResult /\ UnclosedOpener) => parseRes.kind = "ParseError"

\* C8: an unmatched closing token and a closing token of the wrong kind
\* yield a ParseError, and a ParseResult is only returned when every
\* bracket is paired.
C8_ClosersChecked ==
  parseRes # NoResult =>
    /\ OpenAfter(tokens, 1, <<>>) = <<<<"bad">>>> => parseRes.kind = "ParseError"
    /\ parseRes.kind = "ParseResult" => OpenAfter(tokens, 1, <<>>) = <<>>

\* ---------------------------------------------------------------------
\* The native namespace
\* ---------------------------------------------------------------------
\* C9: after any sequence of eval calls, namespace `__native__` holds
\* exactly the bindings the Context constructor installed.
C9_NativeFrozen == symbols[NATIVE] = InitialNative

\* ---------------------------------------------------------------------
\* Closure capture
\* ---------------------------------------------------------------------
\* the value a completed call gave for the last statement of the body
LastStatementIs(val) ==
  /\ lastRes.kind = "value"
  /\ \/ lastRes.val = val
     \/ /\ lastRes.val.t = "vec"
        /\ lastRes.val.v # <<>>
        /\ lastRes.val.v[Len(lastRes.val.v)] = val

\* C10: when a Func whose captured frame is the frame of a returned `let`
\* is called, a symbol of its body that the `let` bound resolves to the
\* value the `let` gave it.
C10_ClosureCapture ==
  (/\ lastRes # NoResult
   /\ lastRes.op.name = "call"
   /\ lastRes.op.func.t = "func"
   /\ Len(lastRes.op.params) = Len(lastRes.op.func.args)
   /\ lastRes.op.func.statements = <<SymA>>)
    => LastStatementIs(lastRes.op.func.frame.current[<<"a">>])

\* ---------------------------------------------------------------------
\* Symbol resolution
\* ---------------------------------------------------------------------
\* the last call on the Context was eval(src) and the process survived it
Evaluated(src) ==
  /\ lastRes # NoResult
  /\ lastRes.op.name = "eval"
  /\ lastRes.op.src = src
  /\ lastRes.kind # "crash"

\* no `def` has replaced a native operator
NativeIntact == symbols[NATIVE] = InitialNative

\* C11: the body of a nested `let` sees the bindings of the enclosing
\* `let`: (let [a 2] (let [b 3] (__native__.add a b))) evaluates to 5,
\* whatever `a` is bound to in namespace core.
C11_FrameChain ==
  (Evaluated(P_NestedLet) /\ NativeIntact)
    => (lastRes.kind = "value" /\ lastRes.val = Number(5))

\* C11: a `let` binding shadows a `def` of the same name:
\* (let [a 2] (__native__.add a 1)) evaluates to 3 after (def a 5).
C11_LetShadowsDef ==
  (Evaluated(P_LetAdd) /\ NativeIntact)
    => (lastRes.kind = "value" /\ lastRes.val = Number(3))

C11_ShadowReached ==
  /\ Evaluated(P_LetAdd)
  /\ NativeIntact
  /\ CORE \in DOMAIN symbols
  /\ <<"a">> \in DOMAIN symbols[CORE]

\* ---------------------------------------------------------------------
\* Namespaces
\* ---------------------------------------------------------------------
Bound(ns, tok) == ns \in DOMAIN symbols /\ tok \in DOMAIN symbols[ns]

\* every binding of the symbol table: <<namespace, token, value>>
Bindings(syms) ==
  UNION { { <<ns, tok, syms[ns][tok]>> : tok \in DOMAIN syms[ns] } :
            ns \in DOMAIN syms }

\* the namespace and the token a `def` of the written symbol binds
PlaceOf(target) ==
  CASE target = <<"a">>           -> <<CORE, <<"a">>>>
    [] target = T_coreA           -> <<CORE, <<"a">>>>
    [] target = <<"b", ".", "a">> -> <<<<"b">>, <<"a">>>>
    [] target = T_add             -> <<NATIVE, N_add>>

\* the number a digit token of DefValues stands for
ValueOf(val) == CASE val = <<"1">> -> Number(1) [] val = <<"5">> -> Number(5)

\* the symbol is bound at (ns, tok): it resolved to that binding;
\* otherwise the lookup threw
ResolvedAt(ns, tok) ==
  IF Bound(ns, tok)
  THEN lastRes.kind = "value" /\ lastRes.val = symbols[ns][tok]
  ELSE lastRes.kind = "throw"

\* C12: a `def` of b.a binds symbols[b][a] and nothing else, a `def` of a
\* or of core.a binds symbols[core][a] and nothing else; bare a resolves
\* to symbols[core][a] alone and b.a to symbols[b][a] alone (also inside
\* a `let` that binds a), each throwing when that binding is absent.
C12_Step ==
  /\ \A target \in DefTargets \ {T_add}, val \in DefValues :
       (Evaluated(DefProgram(target, val)))' =>
         /\ lastRes'.kind = "value"
         /\ Bindings(symbols') =
              { b \in Bindings(symbols) :
                  <<b[1], b[2]>> # PlaceOf(target) }
                \cup { <<PlaceOf(target)[1], PlaceOf(target)[2], ValueOf(val)>> }
  /\ Evaluated(P_BareA)' => ResolvedAt(CORE, <<"a">>)'
  /\ Evaluated(P_QualifiedA)' => ResolvedAt(<<"b">>, <<"a">>)'
  /\ Evaluated(P_LetQualified)' => ResolvedAt(<<"b">>, <<"a">>)'

C12_NamespaceIsolation == [][C12_Step]_vars

\* b.a is defined, a is not: bare a was evaluated and did not resolve
C12_Witness ==
  /\ Evaluated(P_BareA)
  /\ Bound(<<"b">>, <<"a">>)
  /\ ~Bound(CORE, <<"a">>)
  /\ lastRes.kind = "throw"

\* a was defined as core.a or as a: bare a resolved to it
C12_BareResolved ==
  /\ Evaluated(P_BareA)
  /\ Bound(CORE, <<"a">>)
  /\ lastRes.kind = "value"

\* ---------------------------------------------------------------------
\* Persistence of definitions
\* ---------------------------------------------------------------------
\* the places a program binds with `def` when it runs to its end
DefinedBy(src) ==
  { PlaceOf(target) : target \in { t \in DefTargets :
                                     \E val \in DefValues :
                                       src = DefProgram(t, val) } }
    \cup (IF src \in {P_DefThenAdd, P_DefTwice, P_DefEvaluated}
          THEN { <<CORE, <<"a">>>> } ELSE {})

\* C13: a `def` evaluates to Nil and leaves its symbol bound to the value
\* given; every binding keeps its value through every call on the Context
\* that holds no `def` of the same symbol; a symbol resolves to the value
\* it is bound to, in a later form of the same eval and in a later eval,
\* which after two `def`s of it is the most recently defined value.
C13_Step ==
  /\ \A target \in DefTargets, val \in DefValues :
       (Evaluated(DefProgram(target, val)))' =>
         /\ lastRes'.kind = "value" /\ lastRes'.val = Nil
         /\ <<PlaceOf(target)[1], PlaceOf(target)[2], ValueOf(val)>>
              \in Bindings(symbols')
  /\ \A b \in Bindings(symbols) :
       \/ b \in Bindings(symbols')
       \/ /\ lastRes'.op.name = "eval"
          /\ <<b[1], b[2]>> \in DefinedBy(lastRes'.op.src)
  /\ Evaluated(P_DefTwice)' =>
       /\ lastRes'.kind = "value" /\ lastRes'.val = Number(5)
       /\ <<CORE, <<"a">>, Number(5)>> \in Bindings(symbols')
  /\ (Evaluated(P_DefThenAdd) /\ NativeIntact)' =>
       /\ lastRes'.kind = "value" /\ lastRes'.val = Number(7)
       /\ <<CORE, <<"a">>, Number(5)>> \in Bindings(symbols')
  /\ (Evaluated(P_AddA) /\ NativeIntact /\ Bound(CORE, <<"a">>))' =>
       /\ lastRes'.kind = "value"
       /\ lastRes'.val = Number(symbols'[CORE][<<"a">>].v + 2)
  /\ Evaluated(P_BareA)' => ResolvedAt(CORE, <<"a">>)'

C13_DefPersists == [][C13_Step]_vars

\* a later call on the Context resolved a to 5, a value an earlier call
\* defined
C13_Witness ==
  /\ Evaluated(P_BareA)
  /\ evals > 1
  /\ lastRes.kind = "value"
  /\ lastRes.val = Number(5)

\* ---------------------------------------------------------------------
\* The output buffer
\* ---------------------------------------------------------------------
\* the renderings of the arguments a program passes to `buf`, in call
\* order: a String verbatim, any other value as the printer writes it
BufArgsText(src) ==
  CASE src = P_BufTwo -> <<"h", "7", ":", "k">>
    [] src = P_BufNil -> <<"x", "n", "i", "l">>
    [] src \in {P_DefSkip, P_StrBufs} -> <<"x", "y">>
    [] src = P_BufStr ->
         IF Bound(CORE, <<"a">>)
         THEN <<"s">> \o NumberChars(symbols[CORE][<<"a">>].v)
         ELSE <<>>
    [] OTHER -> <<>>

\* the same for the call form of a callable the host holds: a Func and a
\* NativeFunc named `_s` have all their arguments evaluated, one named
\* `_2s` all but the first two, a Macro and a NativeFunc named `__s` none
CallBufText(func, params) ==
  IF params # BufForms THEN <<>>
  ELSE CASE func.t = "func"  -> <<"x", "y", "z">>
         [] func.t = "macro" -> <<>>
         [] func.name = <<"_", "s">>      -> <<"x", "y", "z">>
         [] func.name = <<"_", "2", "s">> -> <<"z">>
         [] func.name = <<"_", "_", "s">> -> <<>>

\* what one call on the Context does to the buffer, for eval of the
\* programs of P
BufferStep(P) ==
  /\ (lastRes'.op.name = "eval" /\ lastRes'.kind # "crash"
        /\ lastRes'.op.src \in P)
       => buf' = buf \o BufArgsText(lastRes'.op.src)
  /\ lastRes'.op.name = "pull_buffer" =>
       (lastRes'.val = String(buf) /\ buf' = <<>>)
  /\ lastRes'.op.name = "buffer" =>
       (lastRes'.val = String(buf) /\ buf' = buf)
  /\ lastRes'.op.name = "call" =>
       buf' = buf \o CallBufText(lastRes'.op.func, lastRes'.op.params)

\* C14: every eval appends to the buffer the renderings of all arguments
\* it passes to `buf`, in call order, and nothing else; pull_buffer
\* returns the buffer and empties it; buffer() returns it and leaves it
\* unchanged; no other call changes it.
C14_BufferAccounting == [][BufferStep(Programs)]_vars

\* C14 for the programs that pass no Nil to `buf`
C14_BufferWithoutNil == [][BufferStep(Programs \ {P_BufNil})]_vars

C14_AppendReached ==
  /\ Evaluated(P_BufTwo)
  /\ Len(buf) > 4

\* ---------------------------------------------------------------------
\* let
\* ---------------------------------------------------------------------
\* the last call on the Context was eval(src)
Ran(src) ==
  /\ lastRes # NoResult
  /\ lastRes.op.name = "eval"
  /\ lastRes.op.src = src

\* what the claim says of a `let` that was evaluated, given that the form
\* ran to its end when `ended` holds
LetSemantics(ended) ==
  /\ (Ran(P_LetSeq) /\ NativeIntact /\ ended)
       => (lastRes.kind = "value" /\ lastRes.val = Number(3))
  /\ (Ran(P_LetBadKey) /\ ended) => lastRes.kind = "throw"
  /\ (Ran(P_LetThenA) /\ ended) => ResolvedAt(CORE, <<"a">>)

\* C15: (let [a 2 b (__native__.add a 1)] a b) evaluates to 3: the value
\* of b is computed with a bound, and the value of the last body form is
\* returned; (let [1 2] 1) raises an error; after (let [a 2] a) the symbol
\* a resolves as if the `let` had not been there.
C15_Let == LetSemantics(TRUE)

\* C15 for the evaluations the process survives
C15_LetWhenAlive == LetSemantics(lastRes.kind # "crash")

\* a `let` changes no namespace binding
C15_LetKeepsNamespaces ==
  [][(lastRes'.op.name = "eval" /\ lastRes'.op.src \in LetPrograms)
       => Bindings(symbols') = Bindings(symbols)]_vars

C15_LetReached ==
  /\ Evaluated(P_LetSeq)
  /\ NativeIntact
  /\ lastRes.kind = "value"

\* ---------------------------------------------------------------------
\* Which arguments are evaluated
\* ---------------------------------------------------------------------
\* the last call on the Context was the call form (func x y z), x, y and
\* z the forms (__native__.buf "x"), "y" and "z"
CalledWithForms ==
  /\ lastRes # NoResult
  /\ lastRes.op.name = "call"
  /\ lastRes.op.params = BufForms

Text_x == <<"(">> \o T_buf \o <<" ", DQUOTE, "x", DQUOTE, ")">>
Text_y == <<"(">> \o T_buf \o <<" ", DQUOTE, "y", DQUOTE, ")">>
Text_z == <<"(">> \o T_buf \o <<" ", DQUOTE, "z", DQUOTE, ")">>

\* C16: an argument form (__native__.buf "c") that is evaluated appends c
\* to the buffer and yields Nil; one that is not is handed over as the
\* list it is.  A NativeFunc named `__s` and a Macro leave the buffer as it
\* was; a NativeFunc named `_2s` receives the first two forms as written
\* and appends z; a NativeFunc named `_s`, `str` and a Func append every
\* letter, left to right.  `def` (named `_1def`) does not evaluate
\* its first argument and evaluates the others, `let` (named `__frame.let`)
\* evaluates none.
C16_Step ==
  /\ CalledWithForms' =>
       LET func == lastRes'.op.func
       IN  CASE func.t = "func" ->
                  /\ buf' = buf \o <<"x", "y", "z">>
                  /\ lastRes'.kind = "throw"
             [] func.t = "macro" ->
                  /\ buf' = buf
                  /\ lastRes'.kind = "throw"
                  /\ lastRes'.msg = "Invalid callable!"
             [] func.name = <<"_", "_", "s">> ->
                  /\ buf' = buf
                  /\ lastRes'.val = String(Text_x \o Text_y \o Text_z)
             [] func.name = <<"_", "2", "s">> ->
                  /\ buf' = buf \o <<"z">>
                  /\ lastRes'.val = String(Text_x \o Text_y)
             [] func.name = <<"_", "s">> ->
                  /\ buf' = buf \o <<"x", "y", "z">>
                  /\ lastRes'.val = String(<<>>)
  /\ Evaluated(P_StrBufs)' =>
       (buf' = buf \o <<"x", "y">> /\ lastRes'.val = String(<<>>))
  /\ Evaluated(P_DefSkip)' =>
       /\ buf' = buf \o <<"x", "y">>
       /\ lastRes'.kind = "throw"
       /\ lastRes'.msg = "Invalid arity for def! Expected 2 values!"
  /\ Evaluated(P_DefFirst)' =>
       /\ buf' = buf
       /\ lastRes'.kind = "throw"
       /\ lastRes'.msg = "Must bind to a Symbol!"
  /\ Evaluated(P_DefEvaluated)' =>
       /\ lastRes'.kind = "value"
       /\ <<CORE, <<"a">>, Number(5)>> \in Bindings(symbols')
  /\ Evaluated(P_LetList)' =>
       /\ buf' = buf
       /\ lastRes'.kind = "throw"
       /\ lastRes'.msg = "First argument to 'let' must be a vector"

C16_SkipRule == [][C16_Step]_vars

\* the call form of the NativeFunc named `_2s` was evaluated: two forms
\* came through as written, the third was evaluated
C16_Witness ==
  /\ CalledWithForms
  /\ lastRes.op.func.t = "native"
  /\ lastRes.op.func.name = <<"_", "2", "s">>
  /\ lastRes.kind = "value"
  /\ buf = <<"z">>

\* ---------------------------------------------------------------------
\* Bool heads
\* ---------------------------------------------------------------------
\* the Number a digit token of BoolArgs stands for
ArgValue(tok) ==
  CASE tok = <<"1">> -> Number(1) [] tok = <<"5">> -> Number(5)
    [] tok = <<"7">> -> Number(7)

\* C17: (true) is Nil and (true x ...) is x; (false) and (false x) are
\* Nil and (false x y ...) is y.
C17_BoolHead ==
  \A args \in BoolArgs :
    /\ Evaluated(Form(T_true, args)) =>
         /\ lastRes.kind = "value"
         /\ lastRes.val = IF Len(args) >= 1 THEN ArgValue(args[1]) ELSE Nil
    /\ Evaluated(Form(T_false, args)) =>
         /\ lastRes.kind = "value"
         /\ lastRes.val = IF Len(args) >= 2 THEN ArgValue(args[2]) ELSE Nil

\* (false 1 5) was evaluated and gave its second argument
C17_Witness ==
  /\ Evaluated(Form(T_false, <<<<"1">>, <<"5">>>>))
  /\ lastRes.kind = "value"
  /\ lastRes.val = Number(5)

\* ---------------------------------------------------------------------
\* Interpreter errors
\* ---------------------------------------------------------------------
\* each erroneous form of P, and each call of a Func with a wrong number
\* of arguments or of a Macro, raised an error
RaisesErrors(P) ==
  /\ \A src \in P : Ran(src) => lastRes.kind = "throw"
  /\ (/\ lastRes # NoResult
      /\ lastRes.op.name = "call"
      /\ \/ lastRes.op.func.t = "macro"
         \/ /\ lastRes.op.func.t = "func"
            /\ Len(lastRes.op.params) # Len(lastRes.op.func.args))
       => lastRes.kind = "throw"

\* C18: eval raises an error for a symbol nothing binds, for a Func called
\* with a wrong number of arguments, for a `def` whose first argument is
\* not a Symbol or that has not two arguments, for a head that is a
\* Number, String, Atom, Nil, Vector or Map, and for add, sub, mul, div
\* and invert-sign without argument or with an argument that is a String,
\* an Atom, a NativeFunc or Nil.
C18_InterpreterErrors == RaisesErrors(ErrorPrograms)

\* C18 without the arithmetic forms whose argument is Nil
C18_ErrorsWithoutNil == RaisesErrors(ErrorPrograms \ NilArithmeticPrograms)

C18_ErrorReached ==
  /\ Ran(Form(T_sub, <<<<"1">>, <<":", "k">>>>))
  /\ lastRes.kind = "throw"
  /\ lastRes.msg = "Cannot cast value"

\* ---------------------------------------------------------------------
\* Arithmetic
\* ---------------------------------------------------------------------
\* the number an argument of ArithArgs stands for, a Bool counting 1 or 0
ArgNumber(tok) ==
  CASE tok = <<"1">> -> 1 [] tok = <<"2">> -> 2 [] tok = <<"3">> -> 3
    [] tok = <<"-", "4">> -> 0 - 4 [] tok = <<"1", "2">> -> 12
    [] tok = T_true -> 1 [] tok = T_false -> 0

RECURSIVE SumOf(_)
SumOf(xs) == IF xs = <<>> THEN 0 ELSE ArgNumber(Head(xs)) + SumOf(Tail(xs))

RECURSIVE ProductOf(_)
ProductOf(xs) ==
  IF xs = <<>> THEN 1 ELSE ArgNumber(Head(xs)) * ProductOf(Tail(xs))

\* the written arguments of the form (op args...)
ArgsOf(src) == SubSeq(src, 3, Len(src) - 1)

\* the value is the fraction n/d
IsFraction(val, n, d) ==
  /\ val.t = "num"
  /\ FractionOf(val)[2] # 0
  /\ FractionOf(val)[1] * d = n * FractionOf(val)[2]

\* C19: on a non-empty list of Numbers and Bools `add` gives the sum, `mul`
\* the product, `sub` the first argument less the sum of the others, and
\* `div` the first argument over the product of the others (no finite
\* number when one of the others is 0 or false); with one argument `sub`
\* and `div` give the number that argument stands for.
C19_Arithmetic ==
  (lastRes # NoResult) =>
    LET op   == lastRes.op.src[2]
        args == ArgsOf(lastRes.op.src)
        rest == Tail(args)
    IN  /\ lastRes.kind = "value"
        /\ op = T_add => IsFraction(lastRes.val, SumOf(args), 1)
        /\ op = T_mul => IsFraction(lastRes.val, ProductOf(args), 1)
        /\ op = T_sub =>
             IsFraction(lastRes.val, ArgNumber(args[1]) - SumOf(rest), 1)
        /\ op = T_div =>
             IF ProductOf(rest) # 0
             THEN IsFraction(lastRes.val, ArgNumber(args[1]),
                             ProductOf(rest))
             ELSE lastRes.val.t = "num" /\ FractionOf(lastRes.val)[2] = 0

\* (__native__.div 12 -4 2) was evaluated; it is -3/2
C19_Witness ==
  /\ Ran(Form(T_div, <<<<"1", "2">>, <<"-", "4">>, <<"2">>>>))
  /\ lastRes.kind = "value"
  /\ lastRes.val = Ratio(0 - 3, 2)

\* ---------------------------------------------------------------------
\* Literal round trip
\* ---------------------------------------------------------------------
Printed == lastRes # NoResult /\ lastRes.kind = "printed"

IsNumeral(x) == x[1] \in SexprDigits \cup {"-", "+"}

\* an index of the point in x, 0 when there is none
PointAt(x) == find_last_of_dot(x, Len(x))

\* the digits of a numeral without its sign and its point
NumeralBody(x) == SelectSeq(x, LAMBDA c : c \in SexprDigits)

\* a numeral as a person writes a number: no plus sign, no zero before the
\* integer part, no zero at the end of the fraction
PlainNumeral(x) ==
  LET u == IF x[1] = "-" THEN Tail(x) ELSE x
  IN  /\ x[1] # "+"
      /\ u[1] = "0" => (Len(u) = 1 \/ u[2] = ".")
      /\ PointAt(x) # 0 => x[Len(x)] # "0"

\* the digits of a numeral from its first digit that is not 0 to its last
\* that is not 0
RECURSIVE StripLeadingZeros(_)
StripLeadingZeros(s) ==
  IF s # <<>> /\ s[1] = "0" THEN StripLeadingZeros(Tail(s)) ELSE s

SignificantDigits(x) == Len(StripZeros(StripLeadingZeros(NumeralBody(x))))

\* C20: for every literal x that is a Number, a Bool, an Atom, a Symbol or
\* a String without escapes, printing what Context::parse reads from x
\* gives x again.  Numerals are taken in their plain form.
C20_LiteralRoundTrip ==
  (Printed /\ (IsNumeral(text.str) => PlainNumeral(text.str))) =>
    lastRes.strs = <<text.str>>

\* C20, for the literals the printer does give back: every literal that
\* is not a numeral, and the plain numerals of at most PRECISION
\* significant digits whose integer part has at most PRECISION digits.
C20_RoundTripWithinPrecision ==
  (/\ Printed
   /\ IsNumeral(text.str) =>
         /\ PlainNumeral(text.str)
         /\ SignificantDigits(text.str) <= PRECISION
         /\ Len(NumeralBody(text.str)) <= PRECISION) =>
    lastRes.strs = <<text.str>>

\* the numeral 1000000 was read and printed
C20_LongNumeralPrinted ==
  /\ Printed
  /\ text.str = <<"1", "0", "0", "0", "0", "0", "0">>

\* a numeral with a fraction, an Atom with a namespace and a String were
\* each read and printed (one per behaviour)
C20_FractionPrinted ==
  /\ Printed
  /\ text.str = <<"-", "1", "5", ".", "0", "5">>
  /\ parseRes.vals = <<Ratio(0 - 301, 20)>>

\* ---------------------------------------------------------------------
\* Calling a Func
\* ---------------------------------------------------------------------
FuncCalled ==
  /\ lastRes # NoResult
  /\ lastRes.op.name = "call"
  /\ lastRes.op.func.t = "func"

\* the argument count suits the Func
ArityFits(func, params) ==
  IF func.varArgs.has_value THEN Len(params) >= Len(func.args)
  ELSE Len(params) = Len(func.args)

\* the value a body form has under the bindings of the call: a parameter
\* stands for its argument, the rest parameter for the Vector of the
\* remaining arguments, a write to the buffer for Nil
BodyFormValue(func, params, form) ==
  IF form.t = "list" THEN Nil
  ELSE IF func.varArgs.has_value /\ form = func.varArgs.value
  THEN Vector(SubSeq(params, Len(func.args) + 1, Len(params)))
  ELSE params[CHOOSE i \in 1..Len(func.args) : func.args[i] = form]

\* the text the body forms write, in their order
RECURSIVE BodyText(_)
BodyText(statements) ==
  IF statements = <<>> THEN <<>>
  ELSE (IF statements[1].t = "list" THEN statements[1].v[2].v ELSE <<>>)
         \o BodyText(Tail(statements))

LastForm(func) == func.statements[Len(func.statements)]

\* C21: a Func called with a fitting number of arguments binds its
\* parameters, evaluates its body forms in order and returns the value of
\* the last body form; with any other number of arguments the call raises
\* an error.
C21_FuncCall ==
  FuncCalled =>
    IF ArityFits(lastRes.op.func, lastRes.op.params)
    THEN /\ lastRes.kind = "value"
         /\ lastRes.val = BodyFormValue(lastRes.op.func, lastRes.op.params,
                                        LastForm(lastRes.op.func))
    ELSE lastRes.kind = "throw"

C21_Step ==
  FuncCalled' =>
    IF ArityFits(lastRes'.op.func, lastRes'.op.params)
    THEN /\ lastRes'.kind = "value"
         /\ lastRes'.val =
              Vector([i \in 1..Len(lastRes'.op.func.statements) |->
                        BodyFormValue(lastRes'.op.func, lastRes'.op.params,
                                      lastRes'.op.func.statements[i])])
         /\ buf' = buf \o BodyText(lastRes'.op.func.statements)
    ELSE /\ lastRes'.kind = "throw"
         /\ buf' = buf

\* C21, as the code has it: the call returns the Vector of the values of
\* all body forms, which are evaluated in order under the bindings of the
\* parameters; a call with a wrong number of arguments raises an error and
\* writes nothing.
C21_CallReturnsAllValues == [][C21_Step]_vars

\* a Func with one parameter and a rest parameter was called with three
\* arguments and its body wrote to the buffer before its last form
C21_CallReached ==
  /\ FuncCalled
  /\ lastRes.op.func.args = <<SymB>>
  /\ lastRes.op.func.varArgs = Some(SymRest)
  /\ lastRes.op.func.statements = <<BufCall("x"), SymRest>>
  /\ Len(lastRes.op.params) = 3
  /\ lastRes.kind = "value"
  /\ buf = <<"x">>

\* ---------------------------------------------------------------------
\* Evaluating Vector and Map literals
\* ---------------------------------------------------------------------
\* the value of an element of LiteralElems where a is 5
ElemValue(e) ==
  CASE e = E_one        -> Number(1)
    [] e = P_BareA      -> Number(5)
    [] e = E_add        -> Number(3)
    [] e = BufForm("x") -> Nil

\* an element that evaluates to itself
IsConstantElem(e) == e = E_one

\* C22: evaluating a Vector yields the Vector of the values of its
\* elements, and evaluating a Map yields the Map of the values of its keys
\* and of its values.
C22_Collections ==
  /\ \A elems \in SeqsUpTo(LiteralElems, MaxElems) :
       Ran(VectorProgram(elems)) =>
         /\ lastRes.kind = "value"
         /\ lastRes.val = Vector([i \in 1..Len(elems) |-> ElemValue(elems[i])])
  /\ \A key, value \in LiteralElems :
       Ran(MapProgram(key, value)) =>
         /\ lastRes.kind = "value"
         /\ lastRes.val = Map({<<ElemValue(key), ElemValue(value)>>})
  /\ Ran(P_EmptyMap) => lastRes.kind = "value" /\ lastRes.val = Map({})

\* C22, for Vectors and for the Maps whose key and value evaluate to
\* themselves
C22_VectorsAndConstantMaps ==
  /\ \A elems \in SeqsUpTo(LiteralElems, MaxElems) :
       Ran(VectorProgram(elems)) =>
         /\ lastRes.kind = "value"
         /\ lastRes.val = Vector([i \in 1..Len(elems) |-> ElemValue(elems[i])])
  /\ \A key, value \in { e \in LiteralElems : IsConstantElem(e) } :
       Ran(MapProgram(key, value)) =>
         /\ lastRes.kind = "value"
         /\ lastRes.val = Map({<<ElemValue(key), ElemValue(value)>>})
  /\ Ran(P_EmptyMap) => lastRes.kind = "value" /\ lastRes.val = Map({})

\* [a (__native__.add 1 2)] was evaluated to [5 3]
C22_VectorReached ==
  /\ Ran(VectorProgram(<<P_BareA, E_add>>))
  /\ lastRes.kind = "value"
  /\ lastRes.val = Vector(<<Number(5), Number(3)>>)

\* {1 a} was evaluated
C22_MapReached ==
  /\ Ran(MapProgram(E_one, P_BareA))
  /\ lastRes.kind = "value"

\* ---------------------------------------------------------------------
\* `buf` and `str` render alike
\* ---------------------------------------------------------------------
\* the step in which `buf` gets the arguments `str` has just had
BufAfterStr == evals = 1 /\ evals' = 2

C23_Step ==
  BufAfterStr =>
    /\ lastRes.kind = "value" <=> lastRes'.kind = "value"
    /\ lastRes.kind = "value" => buf' = lastRes.val.v

\* C23: for every argument list, Nil included, `buf` appends the text that
\* `str` returns for it, and both succeed on the same argument lists.
C23_BufMatchesStr == [][C23_Step]_vars

NilWritten == \E i \in 1..Len(tokens) : tokens[i] = T_nil

C23_StepWithoutNil == ~NilWritten => C23_Step

\* C23, for the argument lists in which no nil is written
C23_BufMatchesStrWithoutNil == [][C23_StepWithoutNil]_vars

\* `buf` has appended 7s:k
C23_RenderReached ==
  /\ evals = 2
  /\ tokens = <<<<"7">>, <<DQUOTE, "s", DQUOTE>>, <<":", "k">>>>
  /\ buf = <<"7", "s", ":", "k">>
  /\ lastRes.kind = "value"

\* `str` has returned for an argument list with a nil and `buf` has
\* thrown for it
C23_NilReached ==
  /\ evals = 2
  /\ tokens = <<T_nil>>
  /\ lastRes.kind = "throw"

\* ---------------------------------------------------------------------
\* Tags nested in a BLOCK body
\* ---------------------------------------------------------------------
TagLines(lines) == SelectSeq(lines, LAMBDA l : l.tag)

ChildTags(tag) == SelectSeq(tag.content.value, LAMBDA e : e.kind = "Tag")

\* the Document is one BLOCK tag ~a whose child Tags are the nested tags
\* of the lines, each with the text it was written with
NestedAsWritten(lines) ==
  /\ IsDocument
  /\ Len(doc.elements) = 1
  /\ doc.elements[1].kind = "Tag"
  /\ doc.elements[1].type = "BLOCK"
  /\ ViewText(Src, doc.elements[1].origText) = Src
  /\ LET children == ChildTags(doc.elements[1])
         written  == TagLines(lines)
     IN  /\ Len(children) = Len(written)
         /\ \A i \in 1..Len(written) :
              /\ children[i].type = written[i].type
              /\ ViewText(Src, children[i].origText) = written[i].txt

\* C24: a `~` that is the first character after the whitespace of a body
\* line, the first body line included, and that does not start the
\* terminator line begins a nested tag, which is parsed recursively and is
\* a child Tag of the enclosing BLOCK; a nested BLOCK with the name of the
\* enclosing one consumes its own terminator line.
C24_NestedTags ==
  (doc # NoResult) =>
    \A lines \in LineSeqs :
      Src = NestedText(lines) => NestedAsWritten(lines)

\* C24, for the bodies whose first line is not a nested BLOCK tag
C24_NestedAfterFirstLine ==
  (doc # NoResult) =>
    \A lines \in LineSeqs :
      (Src = NestedText(lines) /\ ~(lines[1].tag /\ lines[1].type = "BLOCK"))
        => NestedAsWritten(lines)

\* a BLOCK nested on the second body line, with the name of the enclosing
\* tag, is a child of the Document's tag
C24_SameNameReached ==
  /\ IsDocument
  /\ Src = NestedText(<<PlainLine,
                        [tag |-> TRUE, pre |-> <<>>, type |-> "BLOCK",
                         txt |-> <<"~", "a", "\n", "1", "\n", "~", "a", "~">>]>>)
  /\ Len(ChildTags(doc.elements[1])) = 1

\* ---------------------------------------------------------------------
\* Scanning for an unescaped character
\* ---------------------------------------------------------------------
Scanned(fn) == doc.kind = "position" /\ doc.fn = fn

\* position p of [start, end) holds `look` and the character before it in
\* the range is not `escape`
Unescaped(t, start, p, look, escape) ==
  t[p] = look /\ (p = start \/ t[p - 1] # escape)

\* the first unescaped `look` of [start, end), `end` when there is none
FirstUnescaped(t, start, end, look, escape) ==
  LET found == { p \in start..(end - 1) : Unescaped(t, start, p, look, escape) }
  IN  IF found = {} THEN end
      ELSE CHOOSE p \in found : \A q \in found : p <= q

\* C25: find_not_escaped returns the first occurrence of c in [s,e) that
\* is not immediately preceded by esc, and e when there is none, for the
\* default escape and for one the caller supplies.
C25_FindNotEscaped ==
  Scanned("find_not_escaped") =>
    doc.pos = FirstUnescaped(text.str, doc.start, doc.end, doc.look, doc.escape)

\* with the default escape the result is the first unescaped occurrence
C25_DefaultEscape ==
  Scanned("find_not_escaped") /\ doc.escape = BACKSLASH =>
    doc.pos = FirstUnescaped(text.str, doc.start, doc.end, doc.look, BACKSLASH)

\* a scan that stepped over an escaped occurrence and found a later one
C25_EscapedSkipped ==
  /\ Scanned("find_not_escaped")
  /\ doc.escape = BACKSLASH
  /\ doc.pos < doc.end
  /\ \E p \in doc.start..(doc.pos - 1) : text.str[p] = doc.look

\* ---------------------------------------------------------------------
\* Scanning for the close of an open delimiter
\* ---------------------------------------------------------------------
\* the first unescaped `}` of [p, end) met while at most one unescaped `{`
\* is still open, `depth` of them being open at p; `end` when there is none
RECURSIVE MatchingClose(_, _, _, _, _, _)
MatchingClose(t, start, p, end, depth, escape) ==
  IF p >= end THEN end
  ELSE IF Unescaped(t, start, p, "}", escape)
       THEN IF depth <= 1 THEN p
            ELSE MatchingClose(t, start, p + 1, end, depth - 1, escape)
  ELSE IF Unescaped(t, start, p, "{", escape)
       THEN MatchingClose(t, start, p + 1, end, depth + 1, escape)
  ELSE MatchingClose(t, start, p + 1, end, depth, escape)

\* C26: started inside one `open`, find_not_escaped_stack returns the
\* `close` that matches that enclosing `open`, every unescaped `open` met
\* during the scan being closed by a `close` of its own first, and e when
\* there is no such `close`.
C26_MatchesEnclosingOpen ==
  Scanned("find_not_escaped_stack") =>
    doc.pos = MatchingClose(text.str, doc.start, doc.start, doc.end, 1,
                            doc.escape)

\* C26 as the code and its tests have it: the scan starts with no `open`
\* counted, so it returns the first `close` not preceded by a backslash at
\* which at most one `open` not preceded by a backslash is unclosed: the
\* `close` of an `open` standing at the start, or the first `close` when no
\* `open` comes before it.
C26_MatchesOpenAtStart ==
  Scanned("find_not_escaped_stack") =>
    doc.pos = MatchingClose(text.str, doc.start, doc.start, doc.end, 0,
                            BACKSLASH)

\* a scan started at a `{` that stepped over the `}` of a nested `{`
C26_NestedPairSkipped ==
  /\ Scanned("find_not_escaped_stack")
  /\ doc.start < doc.end
  /\ text.str[doc.start] = "{"
  /\ doc.pos < doc.end
  /\ \E p \in doc.start..(doc.pos - 1) : text.str[p] = "}"

\* ---------------------------------------------------------------------
\* The order of Values
\* ---------------------------------------------------------------------
Compared == lastRes.kind = "compared"

Reverse(o) ==
  CASE o = "less" -> "greater" [] o = "greater" -> "less" [] OTHER -> o

\* the comparisons of the three Values make a strict total order in which
\* only identical Values are equal
TotalOrder ==
  /\ lastRes.ab \in {"less", "equal", "greater"}
  /\ lastRes.ba = Reverse(lastRes.ab)
  /\ lastRes.ab = "less" /\ lastRes.bc = "less" => lastRes.ac = "less"
  /\ lastRes.ab = "equal" /\ lastRes.bc = "equal" => lastRes.ac = "equal"
  /\ lastRes.ab = "equal" <=> lastRes.a = lastRes.b

\* C27: comparison of Values is a strict total order, Nil on either side
\* included: exactly one of a<b, a==b, a>b holds, comparing b with a gives
\* the reverse of comparing a with b, and the order is transitive.
C27_StrictTotalOrder == Compared => TotalOrder

\* a Value that is no Nil, NaN or Func and holds none
RECURSIVE Ordered(_)
Ordered(val) ==
  /\ val # Nil
  /\ val # Ratio(0, 0)
  /\ val.t # "func"
  /\ val.t = "vec" => \A i \in 1..Len(val.v) : Ordered(val.v[i])

\* the order is strict and total over the Values that are no Nil, NaN or
\* Func and hold none
C27_OrderedValues ==
  Compared /\ Ordered(lastRes.a) /\ Ordered(lastRes.b) /\ Ordered(lastRes.c)
    => TotalOrder

\* three Values of two variants compared in ascending order
C27_AscendingReached ==
  /\ Compared
  /\ Ordered(lastRes.a) /\ Ordered(lastRes.b) /\ Ordered(lastRes.c)
  /\ lastRes.ab = "less" /\ lastRes.bc = "less"
  /\ lastRes.a.t = lastRes.b.t /\ lastRes.b.t # lastRes.c.t

\* ---------------------------------------------------------------------
\* Frame chains
\* ---------------------------------------------------------------------
RootAdded == lastRes.kind = "add_root_frame"

\* the bindings maps of the Frames of a chain, in order
Currents(heap, chain) == [i \in 1..Len(chain) |-> heap[chain[i]].current]

\* no chain of parent pointers comes back to a Frame it has left: a lookup
\* that follows them reaches the null pointer
Acyclic(heap) ==
  \A ptr \in 1..Len(heap) : Len(Chain(heap, ptr)) <= Len(heap)

\* the chain returned is made of new Frames, one for `self` and one for
\* each of its ancestors with their bindings in order, and then of the
\* captured chain itself
CopiedChain ==
  LET before  == lastRes.before
      own     == Chain(before, lastRes.self)
      kept    == Chain(before, lastRes.captured)
      result  == Chain(Frames, lastRes.newFrame)
  IN  /\ Len(result) = Len(own) + Len(kept)
      /\ \A i \in 1..Len(own) : result[i] > Len(before)
      /\ Currents(Frames, SubSeq(result, 1, Len(own))) = Currents(before, own)
      /\ SubSeq(result, Len(own) + 1, Len(result)) = kept

\* C28: add_root_frame(captured) returns a new chain made of a copy of the
\* frame and of each of its ancestors in order, followed by the captured
\* chain, and changes the parent pointer of no frame that existed before;
\* after any sequence of calls every chain is finite and acyclic.
C28_FrameChains ==
  /\ Acyclic(Frames)
  /\ RootAdded =>
       /\ CopiedChain
       /\ SubSeq(Frames, 1, Len(lastRes.before)) = lastRes.before

\* add_root_frame was called on a Frame that has a parent, with a captured
\* chain that holds that very Frame
C28_CapturedSelfReached ==
  /\ RootAdded
  /\ lastRes.before[lastRes.self].parent # NullPtr
  /\ lastRes.captured # NullPtr
  /\ \E i \in 1..Len(Chain(lastRes.before, lastRes.captured)) :
       Chain(lastRes.before, lastRes.captured)[i] = lastRes.self

\* ---------------------------------------------------------------------
\* An error in the middle of a program
\* ---------------------------------------------------------------------
\* the forms a program of SequencePrograms is made of
FormsOf(src) == CHOOSE forms \in FormSeqs : SourceOf(forms) = src

\* the index of the first form that raises an error, 0 when none does
FirstError(forms) ==
  IF \A i \in 1..Len(forms) : forms[i].kind # "err" THEN 0
  ELSE CHOOSE k \in 1..Len(forms) :
         /\ forms[k].kind = "err"
         /\ \A i \in 1..(k - 1) : forms[i].kind # "err"

\* the bindings after the `def` forms among the first n forms, in order
RECURSIVE DefsApplied(_, _, _)
DefsApplied(syms, forms, n) ==
  IF n = 0 THEN syms
  ELSE LET before == DefsApplied(syms, forms, n - 1)
       IN  IF forms[n].kind # "def" THEN before
           ELSE Bind(before, CORE,
                     Bind(IF CORE \in DOMAIN before THEN before[CORE]
                                                    ELSE EmptyBindings,
                          forms[n].name, forms[n].val))

\* the text the `buf` forms among the first n forms append, in order
RECURSIVE TextsAppended(_, _)
TextsAppended(forms, n) ==
  IF n = 0 THEN <<>>
  ELSE TextsAppended(forms, n - 1)
         \o (IF forms[n].kind = "buf" THEN forms[n].text ELSE <<>>)

\* the step is the first eval call and it has thrown
SequenceThrew ==
  evals = 0 /\ evals' = 1 /\ lastRes'.kind = "throw"

\* the bindings a Context holds; a namespace without a binding, which a
\* failed lookup leaves behind, holds none
BindingsOf(syms) ==
  { <<ns, tok, syms[ns][tok]>> : <<ns, tok>> \in
      UNION { {ns} \X DOMAIN syms[ns] : ns \in DOMAIN syms } }

\* the effects of the forms before the one that raised, and no other
EffectsBefore(forms, k) ==
  /\ k > 0
  /\ BindingsOf(symbols') = BindingsOf(DefsApplied(symbols, forms, k - 1))
  /\ buf' = buf \o TextsAppended(forms, k - 1)

\* the step is an eval call that follows one that has thrown
ProbeAfterThrow ==
  evals = 1 /\ evals' = 2 /\ lastRes.kind = "throw"

\* the later call reads the bindings and appends to the text that remain
ProbeSees(src) ==
  /\ BindingsOf(symbols') = BindingsOf(symbols)
  /\ src = BufForm("z") => lastRes'.kind = "value" /\ buf' = buf \o <<"z">>
  /\ src # BufForm("z") =>
       /\ buf' = buf
       /\ IF Bound(CORE, src[1])
          THEN lastRes'.kind = "value" /\ lastRes'.val = symbols[CORE][src[1]]
          ELSE lastRes'.kind = "throw"

C29_Step ==
  /\ SequenceThrew =>
       EffectsBefore(FormsOf(lastRes'.op.src),
                     FirstError(FormsOf(lastRes'.op.src)))
  /\ ProbeAfterThrow => ProbeSees(lastRes'.op.src)

\* C29: when the k-th top-level form of an eval call raises an error, the
\* effects of the forms before it (bindings made by `def`, text appended by
\* `buf`) remain in the Context, no later form is evaluated, and a later
\* eval call sees those bindings and that text.
C29_ErrorKeepsEarlierEffects == [][C29_Step]_vars

\* an eval call has thrown at its second form, which follows a `def` and is
\* followed by a `buf`
C29_ThrownInTheMiddle ==
  /\ evals = 1
  /\ lastRes.kind = "throw"
  /\ \E forms \in FormSeqs :
       /\ SourceOf(forms) = lastRes.op.src
       /\ Len(forms) = 3
       /\ FirstError(forms) = 2
       /\ forms[1].kind = "def"
       /\ forms[3].kind = "buf"
  /\ Bound(CORE, <<"a">>)
  /\ buf = <<>>

\* ---------------------------------------------------------------------
\* Termination of the MML parser
\* ---------------------------------------------------------------------
EndOf(t) == Len(t) + 1

\* every position is larger than the one before
Advancing(positions) ==
  \A i \in 1..(Len(positions) - 1) : positions[i] < positions[i + 1]

\* a parse_element call that succeeds at `iter` leaves the iterator
\* further on
ElementConsumes(t, iter, allowedTags) ==
  parse_element(t, iter, EndOf(t), allowedTags).ok =>
    parse_element(t, iter, EndOf(t), allowedTags).iter > iter

\* the loop of find_after_newline_ws started at `start` advances, ends
\* within the text and returns a position it has not passed
NewlineScanAdvances(t, start) ==
  /\ Advancing(newline_ws_positions(t, start, EndOf(t), TILDE, EndOf(t)))
  /\ Len(newline_ws_positions(t, start, EndOf(t), TILDE, EndOf(t))) <= EndOf(t)
  /\ find_after_newline_ws(t, start, EndOf(t), TILDE) >= start

\* the loop of find_not_escaped_stack started at `start` advances, ends
\* within the text and returns a position it has not passed
StackScanAdvances(t, start) ==
  /\ Advancing(stack_positions(t, start, EndOf(t), "}", "{", 0, EndOf(t)))
  /\ Len(stack_positions(t, start, EndOf(t), "}", "{", 0, EndOf(t))) <= EndOf(t)
  /\ find_not_escaped_stack(t, start, EndOf(t), "}", "{", BACKSLASH) >= start

\* C30: parse ends on every input with a Document or a ParseError: every
\* successful parse_element call consumes at least one character and the
\* scanning loops of find_not_escaped_stack and find_after_newline_ws
\* strictly advance towards the end of the input.
C30_ParseTerminates ==
  /\ doc # NoResult => doc.kind \in {"Document", "ParseError"}
  /\ \A iter \in 1..EndOf(text.str) :
       /\ ElementConsumes(text.str, iter, "ALL")
       /\ ElementConsumes(text.str, iter, "BRACE_ONLY")
       /\ NewlineScanAdvances(text.str, iter)
       /\ StackScanAdvances(text.str, iter)

\* a text has been parsed whose BLOCK tag made find_after_newline_ws pass a
\* line that does not start with `~`
C30_LoopsIterated ==
  /\ doc.kind = "Document"
  /\ \E i \in 1..Len(doc.elements) :
       /\ doc.elements[i].kind = "Tag"
       /\ doc.elements[i].type = "BLOCK"
  /\ \E start \in 1..EndOf(text.str) :
       /\ Len(newline_ws_positions(text.str, start, EndOf(text.str), TILDE,
                                   EndOf(text.str))) > 1
       /\ find_after_newline_ws(text.str, start, EndOf(text.str), TILDE)
            < EndOf(text.str)

====
